---- MODULE Spec2Model ----
(***************************************************************************)
(* Vector-memory abstraction layer of keep-it-krispy:                      *)
(*   src/lambda/processor/memory/s3_vectors_provider.py  (managed backend) *)
(*   src/lambda/processor/memory/ruvector_provider.py    (self-hosted)     *)
(*   src/lambda/processor/memory/dual_provider.py        (dual-write)      *)
(* A backend is the set of document ids it holds plus the set of ids whose *)
(* metadata was updated.  Every provider method is an operator that maps   *)
(* the backend contents, the arguments and the transport failures of the   *)
(* call to the new contents and the value returned or the exception raised.*)
(* The search path (result ordering, meeting grouping) and the transcript   *)
(* path (chunk_text, speaker filtering, process_transcript of provider.py,  *)
(* embedding_provider.py, embeddings.py and handler.py) are functions of    *)
(* their input, run once on every input of the bounded sets.               *)
(* The provider factory and its registry (memory/factory.py) are called    *)
(* under every environment; the webhook receiver (src/lambda/handler.py)   *)
(* detects and converts krispy-live payloads, JSON values carrying their   *)
(* Python types.                                                           *)
(***************************************************************************)
EXTENDS Integers, Sequences, FiniteSets, TLC

\* ------------------------------------------------------------------ bounds
NumIds == 3
MaxLen == 3
BatchSize == 2
PageSize == 1
MaxOps == 3
WideOps == 1
NumCallers == 2
MaxWorkers == 2

Ids == 1..NumIds
Callers == 1..NumCallers
Kinds == {"s3-vectors", "ruvector"}

\* The id convention {meeting_id}_chunk_{index}: an id determines its meeting.
MeetingOf(d) == d % 2
Meetings == {MeetingOf(d) : d \in Ids}

\* ------------------------------------------------------------ small helpers
Min(a, b) == IF a < b THEN a ELSE b

Range(s) == {s[i] : i \in 1..Len(s)}

RECURSIVE SeqsUpTo(_, _)
SeqsUpTo(S, n) ==
  IF n = 0 THEN {<<>>}
  ELSE LET shorter == SeqsUpTo(S, n - 1)
       IN  shorter \cup {Append(s, x) : s \in {t \in shorter : Len(t) = n - 1}, x \in S}

RECURSIVE SortedSeq(_)
SortedSeq(S) ==
  IF S = {} THEN <<>>
  ELSE LET m == CHOOSE x \in S : \A y \in S : x <= y
       IN  <<m>> \o SortedSeq(S \ {m})

\* ------------------------------------------------------------ result values
EmptyStore == [ids |-> {}, upd |-> {}]

NoneValue == [tag |-> "None", successful |-> 0, failed |-> 0, errors |-> <<>>, items |-> {}]

BatchResult(s, f, e) ==
  [tag |-> "BatchResult", successful |-> s, failed |-> f, errors |-> e, items |-> {}]

\* A search answers the stored vectors with their metadata: each item is the id and
\* whether its metadata is the updated one.
SearchResults(st) ==
  [tag |-> "SearchResults", successful |-> 0, failed |-> 0, errors |-> <<>>,
   items |-> {<<d, d \in st.upd>> : d \in st.ids}]

CountValue(n) ==
  [tag |-> "int", successful |-> n, failed |-> 0, errors |-> <<>>, items |-> {}]

ErrorEntry(x) == [id |-> x, error |-> "transport"]

ErrorsFor(s) == [i \in 1..Len(s) |-> ErrorEntry(s[i])]

\* The entry of an exception raised by the method's own code on a backend answer.
AttributeErrorEntry(x) == [id |-> x, error |-> "AttributeError"]

\* What a provider call did: the backend afterwards, the value returned, the
\* exception raised ("" when the call returned), and the backend requests it sent
\* (each request with its payload and whether the transport failed it).
Outcome(st, ret, raised, reqs) == [st |-> st, ret |-> ret, raised |-> raised, reqs |-> reqs]

Request(name, payload, ok) == [name |-> name, payload |-> payload, ok |-> ok]

\* ------------------------------------------------- backend contents updates
PutVectors(st, docs) == [ids |-> st.ids \cup Range(docs), upd |-> st.upd \ Range(docs)]

DeleteVectors(st, keys) == [ids |-> st.ids \ Range(keys), upd |-> st.upd \ Range(keys)]

PatchMetadata(st, d) == [ids |-> st.ids, upd |-> st.upd \cup ({d} \cap st.ids)]

MatchingMeeting(st, m) == {d \in st.ids : MeetingOf(d) = m}

\* list_vectors with an equality filter answers one page of at most PageSize keys
\* and a continuation token for the rest.
ListVectorsPage(st, m) ==
  LET all == SortedSeq(MatchingMeeting(st, m))
  IN  SubSeq(all, 1, Min(Len(all), PageSize))

\* -------------------------------------------------------- sub-batch slicing
\* for i in range(0, len(documents), batch_size): batch = documents[i : i + batch_size]
NumBatches(docs, bs) == (Len(docs) + bs - 1) \div bs

SubBatchRest(docs, bs, k) == SubSeq(docs, (k - 1) * bs + 1, Len(docs))

SubBatch(docs, bs, k) == SubSeq(docs, (k - 1) * bs + 1, Min(k * bs, Len(docs)))

FailedIncrementOne(batch) == 1

FailedIncrement(batch) == Len(batch)

\* The loop of store_batch, sub-batch k onwards; acc carries successful, failed,
\* errors, the backend contents and the requests sent so far.  failing is the set
\* of sub-batch indices whose backend request raises.
RECURSIVE StoreBatchLoop(_, _, _, _, _)
StoreBatchLoop(docs, bs, failing, k, acc) ==
  IF k > NumBatches(docs, bs) THEN acc
  ELSE LET batch == SubBatch(docs, bs, k)
       IN  IF k \in failing
           THEN StoreBatchLoop(docs, bs, failing, k + 1,
                  [acc EXCEPT !.failed = @ + FailedIncrement(batch),
                              !.errors = @ \o ErrorsFor(batch),
                              !.reqs = Append(@, Request("put", batch, FALSE))])
           ELSE StoreBatchLoop(docs, bs, failing, k + 1,
                  [acc EXCEPT !.successful = @ + Len(batch),
                              !.st = PutVectors(@, batch),
                              !.reqs = Append(@, Request("put", batch, TRUE))])

S3_store_batch(st, docs, failing) ==
  LET r == StoreBatchLoop(docs, BatchSize, failing, 1,
             [successful |-> 0, failed |-> 0, errors |-> <<>>, st |-> st, reqs |-> <<>>])
  IN  Outcome(r.st, BatchResult(r.successful, r.failed, r.errors), "", r.reqs)

Ru_store_batch(st, docs, failing) ==
  LET r == StoreBatchLoop(docs, BatchSize, failing, 1,
             [successful |-> 0, failed |-> 0, errors |-> <<>>, st |-> st, reqs |-> <<>>])
  IN  Outcome(r.st, BatchResult(r.successful, r.failed, r.errors), "", r.reqs)

\* delete_batch has the same body in both providers.
delete_batch(st, ids, fails) ==
  IF fails
  THEN Outcome(st, BatchResult(0, Len(ids), ErrorsFor(ids)), "",
               <<Request("delete", ids, FALSE)>>)
  ELSE Outcome(DeleteVectors(st, ids), BatchResult(Len(ids), 0, <<>>), "",
               <<Request("delete", ids, TRUE)>>)

\* ---------------------------------------------------- S3VectorsProvider
S3_store(st, d, fails) ==
  LET r == S3_store_batch(st, <<d>>, IF fails THEN {1} ELSE {})
  IN  Outcome(r.st, NoneValue, "", r.reqs)

S3_delete(st, d, fails) ==
  LET r == delete_batch(st, <<d>>, fails)
  IN  Outcome(r.st, NoneValue, "", r.reqs)

\* listFails: list_vectors raises; fails: delete_vectors raises.
S3_delete_by_meeting_id(st, m, listFails, fails) ==
  IF listFails
  THEN Outcome(st, BatchResult(0, 1, <<ErrorEntry(m)>>), "", <<Request("list", <<m>>, FALSE)>>)
  ELSE LET keys == ListVectorsPage(st, m)
           lst == <<Request("list", <<m>>, TRUE)>>
       IN  IF keys = <<>>
           THEN Outcome(st, BatchResult(0, 0, <<>>), "", lst)
           ELSE LET r == delete_batch(st, keys, fails)
                IN  Outcome(r.st, r.ret, "", lst \o r.reqs)

S3_update_metadata_Patch(st, d) ==
  Outcome(PatchMetadata(st, d), NoneValue, "", <<Request("PATCH vector", <<d>>, TRUE)>>)

S3_update_metadata(st, d) == Outcome(st, NoneValue, "NotImplementedError", <<>>)

S3_search(st, fails) ==
  IF fails
  THEN Outcome(st, NoneValue, "Exception", <<Request("query", <<>>, FALSE)>>)
  ELSE Outcome(st, SearchResults(st), "", <<Request("query", <<>>, TRUE)>>)

S3_get_vector_count(st) == Outcome(st, NoneValue, "NotImplementedError", <<>>)

\* ------------------------------------------------------ RuVectorProvider
Ru_store(st, d, fails) ==
  IF fails
  THEN Outcome(st, NoneValue, "RuntimeError", <<Request("POST vectors", <<d>>, FALSE)>>)
  ELSE Outcome(PutVectors(st, <<d>>), NoneValue, "", <<Request("POST vectors", <<d>>, TRUE)>>)

Ru_delete(st, d, fails) ==
  IF fails
  THEN Outcome(st, NoneValue, "RuntimeError", <<Request("DELETE vector", <<d>>, FALSE)>>)
  ELSE Outcome(DeleteVectors(st, <<d>>), NoneValue, "", <<Request("DELETE vector", <<d>>, TRUE)>>)

\* _request: a 204 answer has no body and gives None; any other success answer
\* gives the parsed JSON object.
NoneResult == [isNone |-> TRUE, body |-> [k \in {} |-> 0]]

JsonResult(body) == [isNone |-> FALSE, body |-> body]

RequestResult(status, body) == IF status = 204 THEN NoneResult ELSE JsonResult(body)

\* dict.get(key, default)
DictGet(body, key, default) == IF key \in DOMAIN body THEN body[key] ELSE default

\* The success answers of the server to a delete-by-filter.  A delete that matched
\* n > 0 vectors is answered {"deleted": n}; one that matched nothing is answered
\* {"deleted": 0}, an object without a count, or 204 No Content.
DeleteByFilterAnswers == {"count", "no-count", "no-content"}

DeleteByFilterAnswer(n, answer) ==
  IF n > 0 \/ answer = "count" THEN RequestResult(200, [deleted |-> n])
  ELSE IF answer = "no-count" THEN RequestResult(200, [k \in {} |-> 0])
  ELSE RequestResult(204, [k \in {} |-> 0])

\* The server deletes every vector matching the filter.  result.get("deleted", 0)
\* on a None result raises AttributeError inside the try, which the except turns
\* into failed=1.
Ru_delete_by_meeting_id(st, m, fails, answer) ==
  IF fails
  THEN Outcome(st, BatchResult(0, 1, <<ErrorEntry(m)>>), "",
               <<Request("delete-by-filter", <<m>>, FALSE)>>)
  ELSE LET keys == SortedSeq(MatchingMeeting(st, m))
           result == DeleteByFilterAnswer(Len(keys), answer)
           req == <<Request("delete-by-filter", <<m>>, TRUE)>>
       IN  IF result.isNone
           THEN Outcome(DeleteVectors(st, keys), BatchResult(0, 1, <<AttributeErrorEntry(m)>>),
                        "", req)
           ELSE Outcome(DeleteVectors(st, keys),
                        BatchResult(DictGet(result.body, "deleted", 0), 0, <<>>), "", req)

Ru_update_metadata(st, d, fails) ==
  IF fails
  THEN Outcome(st, NoneValue, "RuntimeError", <<Request("PATCH vector", <<d>>, FALSE)>>)
  ELSE Outcome(PatchMetadata(st, d), NoneValue, "", <<Request("PATCH vector", <<d>>, TRUE)>>)

Ru_search(st, fails) ==
  IF fails
  THEN Outcome(st, NoneValue, "RuntimeError", <<Request("query", <<>>, FALSE)>>)
  ELSE Outcome(st, SearchResults(st), "", <<Request("query", <<>>, TRUE)>>)

Ru_get_vector_count(st, fails) ==
  IF fails
  THEN Outcome(st, NoneValue, "RuntimeError", <<Request("stats", <<>>, FALSE)>>)
  ELSE Outcome(st, CountValue(Cardinality(st.ids)), "", <<Request("stats", <<>>, TRUE)>>)

\* ------------------------------------------------------------- dispatch
WriteOps == {"store", "store_batch", "delete", "delete_batch",
             "delete_by_meeting_id", "update_metadata"}
ReadOps == {"search", "get_vector_count"}

\* A provider method called on a backend of the given kind.  arg is the argument
\* list (ids or one meeting id); fl is the set of the call's backend requests that
\* the transport fails (for store_batch, the failing sub-batches).  For the
\* delete-by-filter of the self-hosted backend 2 and 3 in fl select the answer
\* without a count and the 204 answer.
AnswerOf(fl) == IF 3 \in fl THEN "no-content" ELSE IF 2 \in fl THEN "no-count" ELSE "count"

ProviderCall(kind, st, op, arg, fl) ==
  IF kind = "s3-vectors"
  THEN CASE op = "store" -> S3_store(st, arg[1], 1 \in fl)
         [] op = "store_batch" -> S3_store_batch(st, arg, fl)
         [] op = "delete" -> S3_delete(st, arg[1], 1 \in fl)
         [] op = "delete_batch" -> delete_batch(st, arg, 1 \in fl)
         [] op = "delete_by_meeting_id" -> S3_delete_by_meeting_id(st, arg[1], 1 \in fl, 2 \in fl)
         [] op = "update_metadata" -> S3_update_metadata(st, arg[1])
         [] op = "search" -> S3_search(st, 1 \in fl)
         [] op = "get_vector_count" -> S3_get_vector_count(st)
  ELSE CASE op = "store" -> Ru_store(st, arg[1], 1 \in fl)
         [] op = "store_batch" -> Ru_store_batch(st, arg, fl)
         [] op = "delete" -> Ru_delete(st, arg[1], 1 \in fl)
         [] op = "delete_batch" -> delete_batch(st, arg, 1 \in fl)
         [] op = "delete_by_meeting_id" -> Ru_delete_by_meeting_id(st, arg[1], 1 \in fl, AnswerOf(fl))
         [] op = "update_metadata" -> Ru_update_metadata(st, arg[1], 1 \in fl)
         [] op = "search" -> Ru_search(st, 1 \in fl)
         [] op = "get_vector_count" -> Ru_get_vector_count(st, 1 \in fl)

\* The failure patterns that make a difference to a call: one flag per request
\* the method can send.
Failures(kind, op, arg) ==
  CASE op = "store_batch" -> SUBSET (1..NumBatches(arg, BatchSize))
    [] op = "delete_by_meeting_id" /\ kind = "s3-vectors" -> {{}, {1}, {2}}
    [] op = "delete_by_meeting_id" /\ kind = "ruvector" -> {{}, {1}, {2}, {3}}
    [] op \in {"update_metadata", "get_vector_count"} /\ kind = "s3-vectors" -> {{}}
    [] OTHER -> {{}, {1}}

AllOk(reqs) == \A i \in 1..Len(reqs) : reqs[i].ok

\* ------------------------------------------------------------------ state
VARIABLES
  pk,        \* kind of the primary backend (of the backend under test)
  sk,        \* kind of the secondary backend
  pStore,    \* contents of the primary backend
  sStore,    \* contents of the secondary backend
  queue,     \* executor work queue: dispatched secondary writes not yet taken
  running,   \* secondary writes a worker thread is executing
  nthreads,  \* worker threads the executor has started
  shutdown,  \* the executor's _shutdown flag
  closePc,   \* close(): "open", "joining" (shutdown called, waiting), "closed"
  pc,        \* per caller: "idle" or "submit" (primary returned, submit next)
  cur,       \* per caller: the write whose primary part has returned
  nops,      \* DualProvider writes started
  scope,     \* which runs are explored: "wide" (every method, argument and
             \* failure, WideOps writes) or "deep" (store and delete of one
             \* document without primary failures, MaxOps writes); "backend"
             \* when a single backend is called directly
  last,      \* the most recent call or step, with its arguments and outcome
  io,        \* a call of a function of the search and transcript paths: the
             \* function, its input, whether it has run, and its output
  memory_provider_instance,
             \* the module global _memory_provider_instance of factory.py
  factory_calls
             \* the calls made on the factory so far, with their outcomes

vars == <<pk, sk, pStore, sStore, queue, running, nthreads, shutdown, closePc,
          pc, cur, nops, scope, last, io, memory_provider_instance, factory_calls>>

dualVars == <<sk, sStore, queue, running, nthreads, shutdown, closePc, pc, cur, nops, scope,
              io, memory_provider_instance, factory_calls>>

NoIo == [fn |-> "none", in |-> <<>>, done |-> FALSE, out |-> <<>>]

IoInput(f, x) == [fn |-> f, in |-> x, done |-> FALSE, out |-> <<>>]

NoTask == [id |-> 0, op |-> "none", arg |-> <<>>, pres |-> NoneValue, pok |-> FALSE,
           ret |-> NoneValue]

NoOutcome == Outcome(EmptyStore, NoneValue, "", <<>>)

Event(ev, target, op, arg, fl, before, out, task) ==
  [ev |-> ev, target |-> target, op |-> op, arg |-> arg, fl |-> fl, before |-> before,
   out |-> out, task |-> task, phase |-> closePc]

NoEvent == [ev |-> "none", target |-> "", op |-> "none", arg |-> <<>>, fl |-> {},
            before |-> EmptyStore, out |-> NoOutcome, task |-> NoTask, phase |-> "open"]

\* _memory_provider_instance: Optional[MemoryProvider] = None
NoInstance == [kind |-> "None", n |-> 0]

RegistryUnused == memory_provider_instance = NoInstance /\ factory_calls = <<>>

\* ------------------------------------------- a single backend, called directly
\* Contents a backend of the given kind can hold: the managed backend never holds
\* updated metadata (update_metadata is unsupported there).
Contents(kind) ==
  {[ids |-> I, upd |-> U] : I \in SUBSET Ids, U \in SUBSET Ids} \cap
  {st \in [ids : SUBSET Ids, upd : SUBSET Ids] :
     st.upd \subseteq st.ids /\ (kind = "s3-vectors" => st.upd = {})}

InitBackend ==
  /\ pk \in Kinds
  /\ sk = "ruvector"
  /\ pStore \in Contents(pk)
  /\ sStore = EmptyStore
  /\ queue = <<>>
  /\ running = {}
  /\ nthreads = 0
  /\ shutdown = FALSE
  /\ closePc = "open"
  /\ pc = [c \in Callers |-> "idle"]
  /\ cur = [c \in Callers |-> NoTask]
  /\ nops = 0
  /\ scope = "backend"
  /\ last = NoEvent
  /\ RegistryUnused
  /\ io = NoIo

\* The backend spec makes one call from each starting contents.
Fresh == last.ev = "none"

Call(op, arg, fl) ==
  LET out == ProviderCall(pk, pStore, op, arg, fl)
  IN  /\ pStore' = out.st
      /\ last' = Event("call", "backend", op, arg, fl, pStore, out, NoTask)
      /\ UNCHANGED <<pk, dualVars>>

Backend_store ==
  /\ Fresh
  /\ \E d \in Ids : \E fl \in Failures(pk, "store", <<d>>) : Call("store", <<d>>, fl)

Backend_store_batch ==
  /\ Fresh
  /\ \E docs \in SeqsUpTo(Ids, MaxLen) :
    \E fl \in Failures(pk, "store_batch", docs) : Call("store_batch", docs, fl)

Backend_delete ==
  /\ Fresh
  /\ \E d \in Ids : \E fl \in Failures(pk, "delete", <<d>>) : Call("delete", <<d>>, fl)

Backend_delete_batch ==
  /\ Fresh
  /\ \E ids \in SeqsUpTo(Ids, MaxLen) :
    \E fl \in Failures(pk, "delete_batch", ids) : Call("delete_batch", ids, fl)

Backend_delete_by_meeting_id ==
  /\ Fresh
  /\ \E m \in Meetings :
    \E fl \in Failures(pk, "delete_by_meeting_id", <<m>>) : Call("delete_by_meeting_id", <<m>>, fl)

Backend_update_metadata ==
  /\ Fresh
  /\ \E d \in Ids :
    \E fl \in Failures(pk, "update_metadata", <<d>>) : Call("update_metadata", <<d>>, fl)

Backend_search ==
  /\ Fresh
  /\ \E fl \in Failures(pk, "search", <<>>) : Call("search", <<>>, fl)

Backend_get_vector_count ==
  /\ Fresh
  /\ \E fl \in Failures(pk, "get_vector_count", <<>>) : Call("get_vector_count", <<>>, fl)

\* ------------------------------------------------------------ DualProvider
\* Arguments of the dual-write runs.  Single-document methods act on document 1;
\* batches are the empty list, one document, and all of Ids in ascending order
\* (more than BatchSize ids make several sub-batches).
DualBatches == {<<>>, <<1>>, SortedSeq(Ids)}

Args(op) ==
  CASE op \in {"store", "delete", "update_metadata"} -> {<<1>>}
    [] op \in {"store_batch", "delete_batch"} -> DualBatches
    [] op = "delete_by_meeting_id" -> {<<m>> : m \in Meetings}
    [] OTHER -> {<<>>}

DeepOps == {"store", "delete"}

Budget(sc) == IF sc = "wide" THEN WideOps ELSE MaxOps

\* A migration pairs the two backends, either one being the primary.
Init ==
  /\ pk \in Kinds
  /\ sk \in Kinds \ {pk}
  /\ scope \in {"wide", "deep"}
  /\ pStore = EmptyStore
  /\ sStore = EmptyStore
  /\ queue = <<>>
  /\ running = {}
  /\ nthreads = 0
  /\ shutdown = FALSE
  /\ closePc = "open"
  /\ pc = [c \in Callers |-> "idle"]
  /\ cur = [c \in Callers |-> NoTask]
  /\ nops = 0
  /\ last = NoEvent
  /\ RegistryUnused
  /\ io = NoIo

\* return primary_result: the Future that submit() answers is dropped.
DualReturnFuture(pres) == [pres EXCEPT !.tag = "Future"]

DualReturn(pres) == pres

\* ThreadPoolExecutor(max_workers=2): submit starts a worker thread while fewer
\* than max_workers run.
AdjustThreadCountNoCap(n) == n + 1

AdjustThreadCount(n) == IF n < MaxWorkers THEN n + 1 ELSE n

\* submit() puts the work item on an unbounded queue and never waits for a worker.
SubmitWaitsForWorker(q, r) == q = <<>> /\ Cardinality(r) < MaxWorkers

SubmitAccepts(q, r) == TRUE

\* self._primary.search / self._primary.get_vector_count
ReadTargetSecondary == "secondary"

ReadTarget == "primary"

\* shutdown(wait=True)
ShutdownNoWait == FALSE

ShutdownWait == TRUE

\* self._primary.<method>(...) is a plain statement of the write method: the submit
\* after it is reached only when the call returned.
PrimaryReturnedAlways(out) == TRUE

PrimaryReturned(out) == out.raised = ""

\* The first half of a DualProvider write: the blocking call on the primary.  An
\* exception of the primary leaves the method at once.
DualPrimary(c, op, arg, fl) ==
  LET out == ProviderCall(pk, pStore, op, arg, fl)
      task == [id |-> nops + 1, op |-> op, arg |-> arg, pres |-> out.ret,
               pok |-> AllOk(out.reqs), ret |-> NoneValue]
  IN  /\ pc[c] = "idle"
      /\ \A b \in Callers : b < c => pc[b] # "idle"
      /\ nops < Budget(scope)
      /\ nops' = nops + 1
      /\ pStore' = out.st
      /\ IF PrimaryReturned(out)
         THEN /\ pc' = [pc EXCEPT ![c] = "submit"]
              /\ cur' = [cur EXCEPT ![c] = task]
         ELSE UNCHANGED <<pc, cur>>
      /\ last' = Event("primary", "primary", op, arg, fl, pStore, out, task)
      /\ UNCHANGED <<pk, sk, sStore, queue, running, nthreads, shutdown, closePc, scope, io,
          memory_provider_instance, factory_calls>>

\* Callers are interchangeable: the lowest idle one issues the next write.
DualWrite(c) ==
  \/ /\ scope = "wide"
     /\ \E op \in WriteOps : \E arg \in Args(op) : \E fl \in Failures(pk, op, arg) :
          DualPrimary(c, op, arg, fl)
  \/ /\ scope = "deep"
     /\ \E op \in DeepOps : DualPrimary(c, op, <<1>>, {})

\* The second half: self._executor.submit(self._write_to_secondary, ...) and the
\* return.  After shutdown submit raises RuntimeError to the caller.
DualSubmit(c) ==
  /\ pc[c] = "submit"
  /\ SubmitAccepts(queue, running)
  /\ pc' = [pc EXCEPT ![c] = "idle"]
  /\ cur' = [cur EXCEPT ![c] = NoTask]
  /\ IF shutdown
     THEN /\ last' = Event("return", "caller", cur[c].op, cur[c].arg, {}, pStore,
                           Outcome(pStore, NoneValue, "RuntimeError", <<>>), cur[c])
          /\ UNCHANGED <<queue, nthreads>>
     ELSE LET task == [cur[c] EXCEPT !.ret = DualReturn(cur[c].pres)]
          IN  /\ queue' = Append(queue, task)
              /\ nthreads' = AdjustThreadCount(nthreads)
              /\ last' = Event("return", "caller", task.op, task.arg, {}, pStore,
                               Outcome(pStore, task.ret, "", <<>>), task)
  /\ UNCHANGED <<pk, sk, pStore, sStore, running, shutdown, closePc, nops, scope, io,
          memory_provider_instance, factory_calls>>

\* An idle worker thread takes the next work item.
WorkerTake ==
  /\ queue # <<>>
  /\ Cardinality(running) < nthreads
  /\ running' = running \cup {Head(queue)}
  /\ queue' = Tail(queue)
  /\ UNCHANGED <<pk, sk, pStore, sStore, nthreads, shutdown, closePc, pc, cur, nops,
                 scope, last, io, memory_provider_instance, factory_calls>>

\* _write_to_secondary: the call on the secondary inside try/except Exception; the
\* outcome is printed and the exception, if any, is not raised again.
WriteToSecondary(t, fl) ==
  LET out == ProviderCall(sk, sStore, t.op, t.arg, fl)
  IN  /\ sStore' = out.st
      /\ running' = running \ {t}
      /\ last' = Event("secondary", "secondary", t.op, t.arg, fl, pStore, out, t)
      /\ UNCHANGED <<pk, sk, pStore, queue, nthreads, shutdown, closePc, pc, cur, nops,
                     scope, io, memory_provider_instance, factory_calls>>

WorkerRun ==
  \E t \in running : \E fl \in Failures(sk, t.op, t.arg) : WriteToSecondary(t, fl)

\* search and get_vector_count: return self._primary.<method>(...).
DualReadCall(op, fl) ==
  IF ReadTarget = "primary"
  THEN ProviderCall(pk, pStore, op, <<>>, fl)
  ELSE ProviderCall(sk, sStore, op, <<>>, fl)

DualRead(c) ==
  \E op \in ReadOps :
    LET kind == IF ReadTarget = "primary" THEN pk ELSE sk
        st == IF ReadTarget = "primary" THEN pStore ELSE sStore
    IN  \E fl \in Failures(kind, op, <<>>) :
          /\ pc[c] = "idle"
          /\ \A b \in Callers : b < c => pc[b] # "idle"
          /\ scope = "wide"
          /\ last' = Event("read", ReadTarget, op, <<>>, fl, st, DualReadCall(op, fl), NoTask)
          /\ UNCHANGED <<pk, sk, pStore, sStore, queue, running, nthreads, shutdown,
                         closePc, pc, cur, nops, scope, io, memory_provider_instance, factory_calls>>

\* close(): self._executor.shutdown(wait=True) sets the flag, then joins the worker
\* threads, which leave once the queue is drained.
CloseCall ==
  /\ closePc = "open"
  /\ shutdown' = TRUE
  /\ closePc' = "joining"
  /\ UNCHANGED <<pk, sk, pStore, sStore, queue, running, nthreads, pc, cur, nops,
                 scope, last, io, memory_provider_instance, factory_calls>>

CloseReturn ==
  /\ closePc = "joining"
  /\ ShutdownWait => (queue = <<>> /\ running = {})
  /\ closePc' = "closed"
  /\ UNCHANGED <<pk, sk, pStore, sStore, queue, running, nthreads, shutdown, pc, cur,
                 nops, scope, last, io, memory_provider_instance, factory_calls>>

Next ==
  \/ \E c \in Callers : DualWrite(c)
  \/ \E c \in Callers : DualSubmit(c)
  \/ \E c \in Callers : DualRead(c)
  \/ WorkerTake
  \/ WorkerRun
  \/ CloseCall
  \/ CloseReturn

Spec == Init /\ [][Next]_vars

\* A single backend called once from any contents it can hold, and a DualProvider
\* batch write over the same arguments up to its return.
Backend_dual_batch ==
  /\ Fresh
  /\ \E op \in {"store_batch", "delete_batch"} : \E arg \in SeqsUpTo(Ids, MaxLen) :
    \E fl \in Failures(pk, op, arg) : DualPrimary(1, op, arg, fl)

NextBackend ==
  \/ Backend_store
  \/ Backend_store_batch
  \/ Backend_delete
  \/ Backend_delete_batch
  \/ Backend_delete_by_meeting_id
  \/ Backend_update_metadata
  \/ Backend_search
  \/ Backend_get_vector_count
  \/ Backend_dual_batch
  \/ \E c \in Callers : DualSubmit(c)

SpecBackend == InitBackend /\ [][NextBackend]_vars

\* One caller using a DualProvider over two empty backends the way a migration
\* script does: store and delete calls one after the other, each started when the
\* one before has returned, then close(); no backend request fails.  The input
\* of a run is the set of documents the caller stores and the set it deletes,
\* each any number of times in any order.
SeqDocs == {1, 2}

InitSeq ==
  /\ pk \in Kinds
  /\ sk \in Kinds \ {pk}
  /\ scope = "sequential"
  /\ pStore = EmptyStore
  /\ sStore = EmptyStore
  /\ queue = <<>>
  /\ running = {}
  /\ nthreads = 0
  /\ shutdown = FALSE
  /\ closePc = "open"
  /\ pc = [c \in Callers |-> "idle"]
  /\ cur = [c \in Callers |-> NoTask]
  /\ nops = 0
  /\ last = NoEvent
  /\ RegistryUnused
  /\ \E stores \in SUBSET SeqDocs : \E deletes \in SUBSET SeqDocs :
       io = IoInput("DualProvider", [stores |-> stores, deletes |-> deletes])

SeqWrite ==
  /\ closePc = "open"
  /\ \/ \E d \in io.in.stores : DualPrimary(1, "store", <<d>>, {})
     \/ \E d \in io.in.deletes : DualPrimary(1, "delete", <<d>>, {})

SeqSubmit == DualSubmit(1)

SeqWorkerRun == \E t \in running : WriteToSecondary(t, {})

SeqClose == pc[1] = "idle" /\ CloseCall

NextSeq ==
  \/ SeqWrite
  \/ SeqSubmit
  \/ WorkerTake
  \/ SeqWorkerRun
  \/ SeqClose
  \/ CloseReturn

SpecSequential == InitSeq /\ [][NextSeq]_vars

\* --------------------------------------------------------------- search path
\* Scores are in hundredths (0.90 is 90).  The backend ranks its answer by
\* similarity and returns at most topK items; an item may come without a score.
MaxResults == 4
SnippetLimit == 3

Scores == {50, 90}
MinScores == {60}
MeetingIds == {"m1", "m2"}

NoMinScore == [set |-> FALSE, value |-> 0]

MinScore(v) == [set |-> TRUE, value |-> v]

Descending(s) == \A i \in 1..Len(s) : \A j \in 1..Len(s) : i < j => s[i].score >= s[j].score

\* An item of a query answer: its key is its rank in the answer.
ResponseItem(k, has, sc) == [key |-> k, has |-> has, score |-> sc]

RECURSIVE ResponsesOfLen(_)
ResponsesOfLen(n) ==
  IF n = 0 THEN {<<>>}
  ELSE {Append(r, ResponseItem(n, TRUE, sc)) : r \in ResponsesOfLen(n - 1), sc \in Scores}
       \cup {Append(r, ResponseItem(n, FALSE, 0)) : r \in ResponsesOfLen(n - 1)}

\* The answers to a query with topK = k: the scored items are in descending order.
Responses(k) ==
  {r \in UNION {ResponsesOfLen(n) : n \in 0..k} :
     Descending(SelectSeq(r, LAMBDA it : it.has))}

SearchResult(id, sc) == [id |-> id, score |-> sc]

\* score = item.get("score", 1 - i * 0.05), i counting from 0
S3_item_score(resp, i) == IF resp[i].has THEN resp[i].score ELSE 100 - (i - 1) * 5

\* score = item.get("score", 0.0)
Ru_item_score(item) == IF item.has THEN item.score ELSE 0

Passes(sc, ms) == ms.set => sc >= ms.value

\* S3VectorsProvider.search after query_vectors answered: one result per item in
\* the answer's order, then the min_score filter.
S3_search_results(resp, ms) ==
  LET results == [i \in 1..Len(resp) |-> SearchResult(resp[i].key, S3_item_score(resp, i))]
  IN  SelectSeq(results, LAMBDA r : Passes(r.score, ms))

\* RuVectorProvider.search after the query answered: items below min_score are
\* skipped, the others appended in the answer's order.
Ru_search_results(resp, ms) ==
  LET results == [i \in 1..Len(resp) |-> SearchResult(resp[i].key, Ru_item_score(resp[i]))]
  IN  SelectSeq(results, LAMBDA r : Passes(r.score, ms))

\* A chunk-level result as _group_by_meeting reads it: metadata.meeting_id ("" when
\* absent), score, metadata.text.  The text of the i-th result is <<i>>, or <<>>
\* when the chunk has no text.
ChunkResult(m, sc, text) == [meeting_id |-> m, score |-> sc, text |-> text]

ChunkFields == [meeting_id : MeetingIds \cup {""}, score : Scores, has_text : BOOLEAN]

ChunkResults(f) ==
  [i \in DOMAIN f |->
     ChunkResult(f[i].meeting_id, f[i].score, IF f[i].has_text THEN <<i>> ELSE <<>>)]

MaxOf(scores) == CHOOSE x \in Range(scores) : \A y \in Range(scores) : x >= y

GroupScoreFirst(scores) == scores[1]

GroupScore(scores) == MaxOf(scores)

\* The loop over the results: meeting_map as the list of its entries in insertion
\* order.
RECURSIVE GroupLoop(_, _)
GroupLoop(results, map) ==
  IF results = <<>> THEN map
  ELSE LET r == Head(results)
           snip == IF r.text # <<>> THEN <<r.text>> ELSE <<>>
       IN  IF r.meeting_id = "" THEN GroupLoop(Tail(results), map)
           ELSE IF \E i \in 1..Len(map) : map[i].meeting_id = r.meeting_id
           THEN LET i == CHOOSE j \in 1..Len(map) : map[j].meeting_id = r.meeting_id
                IN  GroupLoop(Tail(results),
                      [map EXCEPT ![i].scores = Append(@, r.score),
                                  ![i].snippets = @ \o snip])
           ELSE GroupLoop(Tail(results),
                  Append(map, [meeting_id |-> r.meeting_id, scores |-> <<r.score>>,
                               snippets |-> snip]))

MeetingSearchResult(data) ==
  [meeting_id |-> data.meeting_id, score |-> GroupScore(data.scores),
   matching_chunks |-> Len(data.scores),
   snippets |-> SubSeq(data.snippets, 1, Min(SnippetLimit, Len(data.snippets)))]

\* list.sort(key=score, reverse=True): stable, equal scores keep their order.
RECURSIVE SortByScoreDesc(_)
SortByScoreDesc(s) ==
  IF s = <<>> THEN <<>>
  ELSE LET rest == SortByScoreDesc(Tail(s))
           before == SelectSeq(rest, LAMBDA x : x.score > Head(s).score)
           after == SelectSeq(rest, LAMBDA x : x.score <= Head(s).score)
       IN  before \o <<Head(s)>> \o after

group_by_meeting(results) ==
  LET map == GroupLoop(results, <<>>)
  IN  SortByScoreDesc([i \in 1..Len(map) |-> MeetingSearchResult(map[i])])

\* Every variable of the providers at rest.
ProvidersIdle ==
  /\ pk = "s3-vectors"
  /\ sk = "ruvector"
  /\ pStore = EmptyStore
  /\ sStore = EmptyStore
  /\ queue = <<>>
  /\ running = {}
  /\ nthreads = 0
  /\ shutdown = FALSE
  /\ closePc = "open"
  /\ pc = [c \in Callers |-> "idle"]
  /\ cur = [c \in Callers |-> NoTask]
  /\ nops = 0
  /\ scope = "function"
  /\ last = NoEvent
  /\ RegistryUnused

providerState ==
  <<pk, sk, pStore, sStore, queue, running, nthreads, shutdown, closePc, pc, cur, nops,
    scope, last>>

providerVars == <<providerState, memory_provider_instance, factory_calls>>

\* The inputs: a search with its options and the backend's answer, or the list of
\* chunk-level results handed to the grouping.
InitSearch ==
  /\ ProvidersIdle
  /\ \/ \E f \in {"S3.search", "Ru.search"} : \E k \in 1..MaxResults :
          \E ms \in {NoMinScore} \cup {MinScore(v) : v \in MinScores} :
            \E r \in Responses(k) :
              io = IoInput(f, [resp |-> r, top_k |-> k, min_score |-> ms])
     \/ \E n \in 0..MaxResults : \E f \in [1..n -> ChunkFields] :
          io = IoInput("search_by_meeting", ChunkResults(f))

S3_search_call ==
  /\ io.fn = "S3.search"
  /\ ~io.done
  /\ io' = [io EXCEPT !.done = TRUE, !.out = S3_search_results(io.in.resp, io.in.min_score)]
  /\ UNCHANGED providerVars

Ru_search_call ==
  /\ io.fn = "Ru.search"
  /\ ~io.done
  /\ io' = [io EXCEPT !.done = TRUE, !.out = Ru_search_results(io.in.resp, io.in.min_score)]
  /\ UNCHANGED providerVars

\* search_by_meeting: the grouping of the results search_by_text returned.
search_by_meeting ==
  /\ io.fn = "search_by_meeting"
  /\ ~io.done
  /\ io' = [io EXCEPT !.done = TRUE, !.out = group_by_meeting(io.in)]
  /\ UNCHANGED providerVars

NextSearch ==
  \/ S3_search_call
  \/ Ru_search_call
  \/ search_by_meeting

SpecSearch == InitSearch /\ [][NextSearch]_vars

\* ----------------------------------------------------------- transcript path
\* A string is the sequence of its characters.
MaxTextLen == 5
MaxChunkSize == 4
MaxSpeakers == 2
\* chunk_size=500, overlap=50 and the 500 characters of the text metadata, scaled.
DefaultChunkSize == 2
DefaultOverlap == 1
TextLimit == 3

UpperCase == <<"A", "B", "C", "D", "E", "F", "G", "H", "I", "J", "K", "L", "M",
               "N", "O", "P", "Q", "R", "S", "T", "U", "V", "W", "X", "Y", "Z">>
LowerCase == <<"a", "b", "c", "d", "e", "f", "g", "h", "i", "j", "k", "l", "m",
               "n", "o", "p", "q", "r", "s", "t", "u", "v", "w", "x", "y", "z">>

LowerChar(c) ==
  IF \E i \in DOMAIN UpperCase : UpperCase[i] = c
  THEN LowerCase[CHOOSE i \in DOMAIN UpperCase : UpperCase[i] = c]
  ELSE c

\* str.lower()
Lower(s) == [i \in 1..Len(s) |-> LowerChar(s[i])]

\* str.startswith(prefix)
StartsWith(s, prefix) == Len(s) >= Len(prefix) /\ SubSeq(s, 1, Len(prefix)) = prefix

IsSpace(c) == c = " "

RECURSIVE LStrip(_)
LStrip(s) == IF s # <<>> /\ IsSpace(Head(s)) THEN LStrip(Tail(s)) ELSE s

RECURSIVE RStrip(_)
RStrip(s) == IF s # <<>> /\ IsSpace(s[Len(s)]) THEN RStrip(SubSeq(s, 1, Len(s) - 1)) ELSE s

\* str.strip()
Strip(s) == RStrip(LStrip(s))

\* str.split(): the maximal runs of non-whitespace characters.
RECURSIVE SplitLoop(_, _, _)
SplitLoop(s, word, words) ==
  IF s = <<>> THEN (IF word = <<>> THEN words ELSE Append(words, word))
  ELSE IF IsSpace(Head(s))
       THEN SplitLoop(Tail(s), <<>>, IF word = <<>> THEN words ELSE Append(words, word))
       ELSE SplitLoop(Tail(s), Append(word, Head(s)), words)

Split(s) == SplitLoop(s, <<>>, <<>>)

\* sep.join(parts)
RECURSIVE JoinWith(_, _)
JoinWith(parts, sep) ==
  IF parts = <<>> THEN <<>>
  ELSE IF Len(parts) = 1 THEN parts[1]
  ELSE parts[1] \o sep \o JoinWith(Tail(parts), sep)

Join(words) == JoinWith(words, <<" ">>)

\* seq[a:b] with 0 <= a
Slice(s, a, b) == SubSeq(s, a + 1, Min(b, Len(s)))

RangeStepSkip(chunk_size, overlap) == chunk_size + 1

\* MemoryProvider.chunk_text: for i in range(0, len(words), chunk_size - overlap)
RangeStep(chunk_size, overlap) == chunk_size - overlap

RECURSIVE ProviderChunkLoop(_, _, _, _, _)
ProviderChunkLoop(words, chunk_size, overlap, i, chunks) ==
  IF i >= Len(words) THEN chunks
  ELSE LET chunk == Join(Slice(words, i, i + chunk_size))
       IN  ProviderChunkLoop(words, chunk_size, overlap, i + RangeStep(chunk_size, overlap),
                             IF Strip(chunk) # <<>> THEN Append(chunks, chunk) ELSE chunks)

Provider_chunk_text(text, chunk_size, overlap) ==
  ProviderChunkLoop(Split(text), chunk_size, overlap, 0, <<>>)

\* The while loop of EmbeddingProvider.chunk_text and of embeddings.chunk_text.
RECURSIVE WhileChunkLoop(_, _, _, _, _)
WhileChunkLoop(words, chunk_size, overlap, start, chunks) ==
  IF ~(start < Len(words)) THEN chunks
  ELSE LET end == start + chunk_size
           appended == Append(chunks, Join(Slice(words, start, end)))
       IN  IF end - overlap >= Len(words) THEN appended
           ELSE WhileChunkLoop(words, chunk_size, overlap, end - overlap, appended)

EmbeddingProvider_chunk_text(text, chunk_size, overlap) ==
  LET words == Split(text)
  IN  IF Len(words) <= chunk_size THEN (IF Strip(text) # <<>> THEN <<text>> ELSE <<>>)
      ELSE WhileChunkLoop(words, chunk_size, overlap, 0, <<>>)

embeddings_chunk_text(text, chunk_size, overlap) ==
  LET words == Split(text)
  IN  IF Len(words) <= chunk_size THEN (IF Strip(text) # <<>> THEN <<text>> ELSE <<>>)
      ELSE WhileChunkLoop(words, chunk_size, overlap, 0, <<>>)

\* String literals of the speaker handling.
S_speaker == <<"s", "p", "e", "a", "k", "e", "r", " ">>
S_unknown == <<"u", "n", "k", "n", "o", "w", "n">>
S_guest == <<"g", "u", "e", "s", "t">>
S_participant == <<"p", "a", "r", "t", "i", "c", "i", "p", "a", "n", "t">>
S_context == <<"M", "e", "e", "t", "i", "n", "g", " ", "p", "a", "r", "t", "i", "c", "i",
               "p", "a", "n", "t", "s", ":", " ">>

\* MemoryProvider.process_transcript: s and not s.lower().startswith("speaker ")
\* and s.lower() not in ("unknown", "guest")
Provider_is_real(s) ==
  /\ s # <<>>
  /\ ~StartsWith(Lower(s), S_speaker)
  /\ Lower(s) \notin {S_unknown, S_guest}

\* handler.is_real_speaker_name
is_real_speaker_name(name) ==
  IF name = <<>> THEN FALSE
  ELSE LET name_lower == Strip(Lower(name))
       IN  IF StartsWith(name_lower, S_speaker) THEN FALSE
           ELSE IF name_lower \in {S_unknown, S_guest, S_participant} THEN FALSE
           ELSE IF Len(name_lower) < 2 THEN FALSE
           ELSE TRUE

\* f"Meeting participants: {', '.join(real_speakers)}. " when real_speakers else ""
SpeakerContext(real_speakers) ==
  IF real_speakers # <<>>
  THEN S_context \o JoinWith(real_speakers, <<",", " ">>) \o <<".", " ">>
  ELSE <<>>

\* The documents built from the chunks: chunk_index, the text that is embedded,
\* metadata.speaker and metadata.text = chunk[:500].
Documents(chunks, speaker_context, primary_speaker) ==
  [i \in 1..Len(chunks) |->
     [chunk_index |-> i - 1, chunk |-> chunks[i], embedded |-> speaker_context \o chunks[i],
      speaker |-> primary_speaker, text |-> Slice(chunks[i], 0, TextLimit)]]

NoDocuments == [chunks |-> <<>>, real_speakers |-> <<>>, documents |-> <<>>]

\* MemoryProvider.process_transcript up to the documents handed to store_batch.
process_transcript(content, speakers) ==
  LET chunks == Provider_chunk_text(content, DefaultChunkSize, DefaultOverlap)
      real_speakers == SelectSeq(speakers, Provider_is_real)
      primary_speaker == IF real_speakers # <<>> THEN real_speakers[1] ELSE S_unknown
  IN  IF chunks = <<>> THEN NoDocuments
      ELSE [chunks |-> chunks, real_speakers |-> real_speakers,
            documents |-> Documents(chunks, SpeakerContext(real_speakers), primary_speaker)]

\* handler.process_vectors up to the vectors handed to store_vectors.
process_vectors(transcript_text, speakers) ==
  LET chunks == embeddings_chunk_text(transcript_text, DefaultChunkSize, DefaultOverlap)
      real_speakers == SelectSeq(speakers, is_real_speaker_name)
      primary_speaker == IF real_speakers # <<>> THEN real_speakers[1]
                         ELSE IF speakers # <<>> THEN speakers[1] ELSE S_unknown
  IN  IF chunks = <<>> THEN NoDocuments
      ELSE [chunks |-> chunks, real_speakers |-> real_speakers,
            documents |-> Documents(chunks, SpeakerContext(real_speakers), primary_speaker)]

\* Inputs: texts over two letters and the blank; speaker labels of every kind the
\* filters tell apart.
RECURSIVE StringsUpTo(_, _)
StringsUpTo(chars, n) ==
  IF n = 0 THEN {<<>>}
  ELSE LET shorter == StringsUpTo(chars, n - 1)
       IN  shorter \cup {Append(s, c) : s \in {t \in shorter : Len(t) = n - 1}, c \in chars}

Texts == StringsUpTo({"a", "b", " "}, MaxTextLen)

TranscriptTexts == StringsUpTo({"a", " "}, MaxTextLen)

SpeakerLabels ==
  { <<"A", "l">>,
    <<"B", "o">>,
    <<"S", "p", "e", "a", "k", "e", "r", " ", "1">>,
    <<"s", "p", "e", "a", "k", "e", "r", " ", "2">>,
    <<"U", "n", "k", "n", "o", "w", "n">>,
    <<"g", "u", "e", "s", "t">>,
    <<"P", "a", "r", "t", "i", "c", "i", "p", "a", "n", "t">>,
    <<"A">>,
    <<>> }

\* The inputs: a chunk_text call with chunk_size > overlap >= 0, or a transcript
\* with its speaker list.
InitTranscript ==
  /\ ProvidersIdle
  /\ \/ \E f \in {"MemoryProvider.chunk_text", "EmbeddingProvider.chunk_text",
                   "embeddings.chunk_text"} :
          \E t \in Texts : \E cs \in 1..MaxChunkSize : \E ov \in 0..(cs - 1) :
            io = IoInput(f, [text |-> t, chunk_size |-> cs, overlap |-> ov])
     \/ \E f \in {"process_transcript", "process_vectors"} :
          \E t \in TranscriptTexts : \E sp \in SeqsUpTo(SpeakerLabels, MaxSpeakers) :
            io = IoInput(f, [content |-> t, speakers |-> sp])

Provider_chunk_text_call ==
  /\ io.fn = "MemoryProvider.chunk_text"
  /\ ~io.done
  /\ io' = [io EXCEPT !.done = TRUE,
                      !.out = Provider_chunk_text(io.in.text, io.in.chunk_size, io.in.overlap)]
  /\ UNCHANGED providerVars

EmbeddingProvider_chunk_text_call ==
  /\ io.fn = "EmbeddingProvider.chunk_text"
  /\ ~io.done
  /\ io' = [io EXCEPT !.done = TRUE,
                      !.out = EmbeddingProvider_chunk_text(io.in.text, io.in.chunk_size,
                                                           io.in.overlap)]
  /\ UNCHANGED providerVars

embeddings_chunk_text_call ==
  /\ io.fn = "embeddings.chunk_text"
  /\ ~io.done
  /\ io' = [io EXCEPT !.done = TRUE,
                      !.out = embeddings_chunk_text(io.in.text, io.in.chunk_size, io.in.overlap)]
  /\ UNCHANGED providerVars

process_transcript_call ==
  /\ io.fn = "process_transcript"
  /\ ~io.done
  /\ io' = [io EXCEPT !.done = TRUE, !.out = process_transcript(io.in.content, io.in.speakers)]
  /\ UNCHANGED providerVars

process_vectors_call ==
  /\ io.fn = "process_vectors"
  /\ ~io.done
  /\ io' = [io EXCEPT !.done = TRUE, !.out = process_vectors(io.in.content, io.in.speakers)]
  /\ UNCHANGED providerVars

NextTranscript ==
  \/ Provider_chunk_text_call
  \/ EmbeddingProvider_chunk_text_call
  \/ embeddings_chunk_text_call
  \/ process_transcript_call
  \/ process_vectors_call

SpecTranscript == InitTranscript /\ [][NextTranscript]_vars

\* ------------------------------------------- process_transcript to the store
\* f"{i:04d}": the decimal digits of i, padded with zeros on the left to 4.
IdWidth == 4

DigitChar(d) == <<"0", "1", "2", "3", "4", "5", "6", "7", "8", "9">>[d + 1]

RECURSIVE Decimal(_)
Decimal(n) == IF n < 10 THEN <<DigitChar(n)>> ELSE Append(Decimal(n \div 10), DigitChar(n % 10))

RECURSIVE ZeroPad(_, _)
ZeroPad(digits, width) ==
  IF Len(digits) >= width THEN digits ELSE ZeroPad(<<"0">> \o digits, width)

S_chunk == <<"_", "c", "h", "u", "n", "k", "_">>

\* f"{meeting_id}_chunk_{i:04d}"
ChunkId(meeting_id, i) == meeting_id \o S_chunk \o ZeroPad(Decimal(i), IdWidth)

\* An embedding provider that answers a failure with an empty vector.
generate_embedding_swallow(configured, text, fails) ==
  IF ~configured THEN [raised |-> "", called |-> FALSE, vector |-> [of |-> <<>>]]
  ELSE IF fails THEN [raised |-> "", called |-> TRUE, vector |-> [of |-> <<>>]]
  ELSE [raised |-> "", called |-> TRUE, vector |-> [of |-> text]]

\* MemoryProvider.generate_embedding: RuntimeError without an embedding provider,
\* else the provider's answer or the exception of its model call.
generate_embedding(configured, text, fails) ==
  IF ~configured THEN [raised |-> "RuntimeError", called |-> FALSE, vector |-> [of |-> <<>>]]
  ELSE IF fails THEN [raised |-> "EmbeddingError", called |-> TRUE, vector |-> [of |-> <<>>]]
  ELSE [raised |-> "", called |-> TRUE, vector |-> [of |-> text]]

EmbedCall(text) == [call |-> "generate_embedding", text |-> text, documents |-> <<>>]

StoreBatchCall(documents) == [call |-> "store_batch", text |-> <<>>, documents |-> documents]

\* for i, chunk in enumerate(chunks): embed speaker_context + chunk, append the
\* VectorDocument.  docs are the documents without vector and id; fail_at is the
\* chunk (counted from 1) whose embedding request fails, 0 for none.
RECURSIVE EmbedLoop(_, _, _, _, _, _)
EmbedLoop(meeting_id, docs, configured, fail_at, i, acc) ==
  IF i > Len(docs) THEN acc
  ELSE LET e == generate_embedding(configured, docs[i].embedded, i = fail_at)
           calls == IF e.called THEN Append(acc.calls, EmbedCall(docs[i].embedded))
                    ELSE acc.calls
       IN  IF e.raised # ""
           THEN [acc EXCEPT !.raised = e.raised, !.calls = calls]
           ELSE EmbedLoop(meeting_id, docs, configured, fail_at, i + 1,
                  [acc EXCEPT !.calls = calls,
                              !.documents =
                                 Append(@, [id |-> ChunkId(meeting_id, docs[i].chunk_index),
                                            vector |-> e.vector,
                                            meeting_id |-> meeting_id,
                                            chunk_index |-> docs[i].chunk_index,
                                            speaker |-> docs[i].speaker,
                                            text |-> docs[i].text])])

\* MemoryProvider.process_transcript on a backend of the given kind: what it
\* raised, what it returned, the backend afterwards and the calls it made on the
\* embedding provider and on the store, in order.
process_transcript_store(kind, st, meeting_id, content, speakers, configured, fail_at, fl) ==
  LET p == process_transcript(content, speakers)
  IN  IF p.chunks = <<>>
      THEN [raised |-> "", ret |-> BatchResult(0, 0, <<>>), st |-> st, calls |-> <<>>]
      ELSE LET r == EmbedLoop(meeting_id, p.documents, configured, fail_at, 1,
                              [raised |-> "", calls |-> <<>>, documents |-> <<>>])
           IN  IF r.raised # ""
               THEN [raised |-> r.raised, ret |-> NoneValue, st |-> st, calls |-> r.calls]
               ELSE LET ids == [i \in 1..Len(r.documents) |-> r.documents[i].id]
                        out == ProviderCall(kind, st, "store_batch", ids, fl)
                    IN  [raised |-> out.raised, ret |-> out.ret, st |-> out.st,
                         calls |-> Append(r.calls, StoreBatchCall(r.documents))]

MeetingNames == {<<"m", "1">>, <<"m", "2">>}

\* A provider of either kind over an empty backend, with or without an embedding
\* provider; a transcript, its meeting and speakers; the chunk whose embedding
\* request fails, if any.
InitIngest ==
  /\ pk \in Kinds
  /\ sk = "ruvector"
  /\ pStore = EmptyStore
  /\ sStore = EmptyStore
  /\ queue = <<>>
  /\ running = {}
  /\ nthreads = 0
  /\ shutdown = FALSE
  /\ closePc = "open"
  /\ pc = [c \in Callers |-> "idle"]
  /\ cur = [c \in Callers |-> NoTask]
  /\ nops = 0
  /\ scope = "ingest"
  /\ last = NoEvent
  /\ RegistryUnused
  /\ \E m \in MeetingNames : \E t \in TranscriptTexts :
       \E sp \in {<<>>, <<<<"A", "l">>>>} : \E configured \in BOOLEAN :
         \E k \in 0..Len(Provider_chunk_text(t, DefaultChunkSize, DefaultOverlap)) :
           io = IoInput("process_transcript.store",
                        [meeting_id |-> m, content |-> t, speakers |-> sp,
                         configured |-> configured, fail_at |-> k])

process_transcript_store_call ==
  /\ io.fn = "process_transcript.store"
  /\ ~io.done
  /\ \E fl \in Failures(pk, "store_batch",
                        Provider_chunk_text(io.in.content, DefaultChunkSize, DefaultOverlap)) :
       LET r == process_transcript_store(pk, pStore, io.in.meeting_id, io.in.content,
                                         io.in.speakers, io.in.configured, io.in.fail_at, fl)
       IN  /\ io' = [io EXCEPT !.done = TRUE, !.out = r]
           /\ pStore' = r.st
  /\ UNCHANGED <<pk, sk, sStore, queue, running, nthreads, shutdown, closePc, pc, cur, nops,
                 scope, last, memory_provider_instance, factory_calls>>

NextIngest == process_transcript_store_call

SpecIngest == InitIngest /\ [][NextIngest]_vars

\* ------------------------------------------------------- factory / registry
MaxFactoryCalls == 3
NumCustom == 2

\* os.environ: a variable is unset or holds a string.
Unset == [set |-> FALSE, value |-> ""]

EnvValue(v) == [set |-> TRUE, value |-> v]

\* os.environ.get(name, default)
EnvGet(env, name, default) == IF env[name].set THEN env[name].value ELSE default

\* An optional string argument: None or a string.
PyNone == [none |-> TRUE, value |-> ""]

PyStr(v) == [none |-> FALSE, value |-> v]

\* x or y for an optional string x: None and "" are falsy.
Truthy(x) == ~x.none /\ x.value # ""

Returned(v) == [raised |-> "", value |-> v]

Raised(e) == [raised |-> e, value |-> ""]

ValidTypes == {"s3-vectors", "ruvector", "dual", "ab-router", "mock"}

get_provider_type(env) ==
  LET provider_type == EnvGet(env, "MEMORY_PROVIDER", "s3-vectors")
  IN  IF provider_type \notin ValidTypes THEN Raised("ValueError") ELSE Returned(provider_type)

get_embedding_provider_type(env) == EnvGet(env, "EMBEDDING_PROVIDER", "bedrock")

create_embedding_provider(provider_type, env) ==
  LET embedding_type == IF Truthy(provider_type) THEN provider_type.value
                        ELSE get_embedding_provider_type(env)
  IN  IF embedding_type \in {"bedrock", "ruvector"} THEN Returned(embedding_type)
      ELSE Raised("ValueError")

\* One side of create_dual_provider: config.<side>_provider is None in a default
\* ProviderConfig, so the type comes from the environment.
DualSide(env, name, default) ==
  LET side_type == EnvGet(env, name, default)
  IN  IF side_type \in {"s3-vectors", "ruvector"} THEN Returned(side_type)
      ELSE Raised("ValueError")

create_dual_provider(env) ==
  LET primary == DualSide(env, "PRIMARY_PROVIDER", "s3-vectors")
      secondary == DualSide(env, "SECONDARY_PROVIDER", "ruvector")
  IN  IF primary.raised # "" THEN primary
      ELSE IF secondary.raised # "" THEN secondary
      ELSE Returned("dual")

\* create_memory_provider: the kind of provider returned, or the exception.
create_memory_provider(provider_type, env) ==
  LET memory_type == IF Truthy(provider_type) THEN Returned(provider_type.value)
                     ELSE get_provider_type(env)
  IN  IF memory_type.raised # "" THEN memory_type
      ELSE CASE memory_type.value = "s3-vectors" -> Returned("s3-vectors")
             [] memory_type.value = "ruvector" ->
                  LET e == create_embedding_provider(PyStr(get_embedding_provider_type(env)), env)
                  IN  IF e.raised # "" THEN e ELSE Returned("ruvector")
             [] memory_type.value = "dual" -> create_dual_provider(env)
             [] memory_type.value = "ab-router" -> Raised("NotImplementedError")
             [] memory_type.value = "mock" -> Raised("NotImplementedError")
             [] OTHER -> Raised("ValueError")

\* Provider objects: the n-th one the factory created, or one made by the caller.
Created(kind, n) == [kind |-> kind, n |-> n]

CustomProviders == {[kind |-> "custom", n |-> i] : i \in 1..NumCustom}

NumCreated == Cardinality({i \in 1..Len(factory_calls) : factory_calls[i].created})

FactoryCall(call, arg, raised, ret, created) ==
  [call |-> call, arg |-> arg, raised |-> raised, ret |-> ret, created |-> created]

\* get_memory_provider that builds a provider on every call.
GetCreatesAlways(instance) == TRUE

\* if _memory_provider_instance is None:
GetCreates(instance) == instance = NoInstance

TypeNames == {"", "s3-vectors", "ruvector", "dual", "ab-router", "mock", "Mock", "bogus"}

\* The environment of the process, and the registry as the module import leaves it.
InitFactory ==
  /\ ProvidersIdle
  /\ \E mp \in {Unset} \cup {EnvValue(v) : v \in TypeNames} :
       \E ep \in {Unset, EnvValue("ruvector"), EnvValue("bogus")} :
         \E pp \in {Unset, EnvValue("bogus")} :
           \E sp \in {Unset, EnvValue("s3-vectors")} :
             io = IoInput("factory",
                          [MEMORY_PROVIDER |-> mp, EMBEDDING_PROVIDER |-> ep,
                           PRIMARY_PROVIDER |-> pp, SECONDARY_PROVIDER |-> sp])

create_memory_provider_call ==
  /\ factory_calls = <<>>
  /\ \E arg \in {PyNone} \cup {PyStr(v) : v \in TypeNames} :
       LET r == create_memory_provider(arg, io.in)
       IN  factory_calls' =
             IF r.raised # ""
             THEN <<FactoryCall("create_memory_provider", arg, r.raised, NoInstance, FALSE)>>
             ELSE <<FactoryCall("create_memory_provider", arg, "",
                                Created(r.value, NumCreated + 1), TRUE)>>
  /\ UNCHANGED <<providerState, io, memory_provider_instance>>

get_memory_provider ==
  /\ Len(factory_calls) < MaxFactoryCalls
  /\ IF GetCreates(memory_provider_instance)
     THEN LET r == create_memory_provider(PyNone, io.in)
          IN  IF r.raised # ""
              THEN /\ factory_calls' = Append(factory_calls,
                        FactoryCall("get_memory_provider", PyNone, r.raised, NoInstance, FALSE))
                   /\ UNCHANGED memory_provider_instance
              ELSE /\ memory_provider_instance' = Created(r.value, NumCreated + 1)
                   /\ factory_calls' = Append(factory_calls,
                        FactoryCall("get_memory_provider", PyNone, "",
                                    Created(r.value, NumCreated + 1), TRUE))
     ELSE /\ factory_calls' = Append(factory_calls,
               FactoryCall("get_memory_provider", PyNone, "", memory_provider_instance, FALSE))
          /\ UNCHANGED memory_provider_instance
  /\ UNCHANGED <<providerState, io>>

get_memory_provider_first == factory_calls = <<>> /\ get_memory_provider

reset_memory_provider ==
  /\ Len(factory_calls) < MaxFactoryCalls
  /\ memory_provider_instance' = NoInstance
  /\ factory_calls' = Append(factory_calls,
       FactoryCall("reset_memory_provider", PyNone, "", NoInstance, FALSE))
  /\ UNCHANGED <<providerState, io>>

set_memory_provider ==
  /\ Len(factory_calls) < MaxFactoryCalls
  /\ \E provider \in CustomProviders :
       /\ memory_provider_instance' = provider
       /\ factory_calls' = Append(factory_calls,
            FactoryCall("set_memory_provider", provider, "", NoInstance, FALSE))
  /\ UNCHANGED <<providerState, io>>

\* A provider type selected through the argument or the environment.
NextFactory ==
  \/ create_memory_provider_call
  \/ get_memory_provider_first

SpecFactory == InitFactory /\ [][NextFactory]_vars

\* The registry under any serialized sequence of get, reset and set calls.
NextRegistry ==
  \/ get_memory_provider
  \/ reset_memory_provider
  \/ set_memory_provider

SpecRegistry == InitFactory /\ [][NextRegistry]_vars

\* ------------------------------------------------------ krispy-live payloads
\* src/lambda/handler.py.  A JSON value carries its Python type; a dict is a
\* record over the keys the handler reads, an absent key holding Missing.
\* Strings are sequences of characters, numbers are non-negative.
MaxItems == 2

\* String literals of handler.py, as sequences of characters.
S_Gemini_Assistant ==
  <<"G", "e", "m", "i", "n", "i", " ", "A",
    "s", "s", "i", "s", "t", "a", "n", "t">>

S_Gemini_Live_Conversation ==
  <<"G", "e", "m", "i", "n", "i", " ", "L", "i", "v", "e", " ",
    "C", "o", "n", "v", "e", "r", "s", "a", "t", "i", "o", "n">>

S_Krispy_Live_Recording ==
  <<"K", "r", "i", "s", "p", "y", " ", "L", "i", "v",
    "e", " ", "R", "e", "c", "o", "r", "d", "i", "n", "g">>

S_Speaker == <<"S", "p", "e", "a", "k", "e", "r", " ">>

S_Speaker_1 == <<"S", "p", "e", "a", "k", "e", "r", " ", "1">>

S_Speaker_1_bar == <<"S", "p", "e", "a", "k", "e", "r", " ", "1", " ", "|", " ">>

S_You == <<"Y", "o", "u">>

S_assemblyai_ == <<"a", "s", "s", "e", "m", "b", "l", "y", "a", "i", "_">>

S_bar == <<" ", "|", " ">>

S_gemini_ == <<"g", "e", "m", "i", "n", "i", "_">>

S_meeting_ == <<"m", "e", "e", "t", "i", "n", "g", "_">>

S_role_key == <<"r", "o", "l", "e">>

S_speaker_key == <<"s", "p", "e", "a", "k", "e", "r">>

S_transcript_created ==
  <<"t", "r", "a", "n", "s", "c", "r", "i", "p",
    "t", "_", "c", "r", "e", "a", "t", "e", "d">>

S_user == <<"u", "s", "e", "r">>

S_wav == <<".", "w", "a", "v">>

S_hi == <<"h", "i">>

S_header == <<"S", "p", "e", "a", "k", "e", "r", " ", "1", " ", "|", " ", "0", "0", ":", "0", "0">> \o <<"\n">>

S_whisper_ == <<"w", "h", "i", "s", "p", "e", "r", "_">>

Missing == [t |-> "missing"]

JNull == [t |-> "null"]

JStr(s) == [t |-> "str", s |-> s]

JInt(n) == [t |-> "int", n |-> n]

\* The float of value n.
JFloat(n) == [t |-> "float", n |-> n]

JList(items) == [t |-> "list", items |-> items]

\* An utterance, segment or turn.
JItem(speaker, role, start, end, ts, text) ==
  [t |-> "dict", speaker |-> speaker, role |-> role, start |-> start, end |-> end,
   ts |-> ts, text |-> text]

\* A webhook body: the keys read by detection and by the four converters.
Payload(event, data, assembly_text, whisper_text, utterances, segments, turns, audio_path, created_at) ==
  [event |-> event, data |-> data, assembly_text |-> assembly_text,
   whisper_text |-> whisper_text, utterances |-> utterances, segments |-> segments,
   turns |-> turns, audio_path |-> audio_path, created_at |-> created_at,
   audio_duration |-> Missing, id |-> Missing, timestamp |-> Missing,
   confidence |-> Missing, language |-> Missing]

\* key in d
HasKey(d, key) == d[key] # Missing

\* d.get(key, default)
PayloadGet(d, key, default) == IF HasKey(d, key) THEN d[key] ELSE default

\* x.get(key, default) for an element x of a list: only a dict has get.
ItemGet(x, key, default) ==
  IF x.t = "dict" THEN Returned(PayloadGet(x, key, default)) ELSE Raised("AttributeError")

\* bool(x)
PyBool(x) ==
  CASE x.t = "null" -> FALSE
    [] x.t = "str" -> x.s # <<>>
    [] x.t \in {"int", "float"} -> x.n # 0
    [] x.t = "list" -> x.items # <<>>
    [] OTHER -> TRUE

\* f"{x}"
PyFormat(x) ==
  CASE x.t = "str" -> x.s
    [] x.t = "null" -> <<"N", "o", "n", "e">>
    [] x.t = "float" -> Decimal(x.n) \o <<".", "0">>
    [] OTHER -> Decimal(x.n)

\* x.strip(): a str method.
PyStrip(x) == IF x.t = "str" THEN Returned(JStr(Strip(x.s))) ELSE Raised("AttributeError")

\* needle in s, for strings
IsSubstring(needle, s) ==
  \E i \in 1..(Len(s) + 1) :
    i + Len(needle) - 1 <= Len(s) /\ SubSeq(s, i, i + Len(needle) - 1) = needle

\* The characters of a key name.
KeyChars(key) == IF key = "speaker" THEN S_speaker_key ELSE S_role_key

\* key in x: a dict is searched by key, a string by substring, a list by
\* element; None and numbers are not containers.
PyIn(key, x) ==
  CASE x.t = "dict" -> Returned(HasKey(x, key))
    [] x.t = "str" -> Returned(IsSubstring(KeyChars(key), x.s))
    [] x.t = "list" -> Returned(\E i \in DOMAIN x.items : x.items[i] = JStr(KeyChars(key)))
    [] OTHER -> Raised("TypeError")

\* f"{hours:02d}:{minutes:02d}:{seconds:02d}" or f"{minutes:02d}:{seconds:02d}"
ClockText(total_seconds) ==
  LET hours == total_seconds \div 3600
      minutes == (total_seconds % 3600) \div 60
      seconds == total_seconds % 60
      mmss == ZeroPad(Decimal(minutes), 2) \o <<":">> \o ZeroPad(Decimal(seconds), 2)
  IN  IF hours > 0 THEN ZeroPad(Decimal(hours), 2) \o <<":">> \o mmss ELSE mmss

\* ms // 1000 keeps a float a float, which the format code d rejects.
format_timestamp(ms) ==
  CASE ms.t = "int" -> Returned(ClockText(ms.n \div 1000))
    [] ms.t = "float" -> Raised("ValueError")
    [] OTHER -> Raised("TypeError")

\* int(seconds) accepts both kinds of number.
format_timestamp_seconds(seconds) ==
  CASE seconds.t \in {"int", "float"} -> Returned(ClockText(seconds.n))
    [] seconds.t = "str" -> Raised("ValueError")
    [] OTHER -> Raised("TypeError")

\* x // 1000
FloorDiv1000(x) ==
  CASE x.t = "int" -> Returned(JInt(x.n \div 1000))
    [] x.t = "float" -> Returned(JFloat(x.n \div 1000))
    [] OTHER -> Raised("TypeError")

\* int(x)
PyInt(x) ==
  CASE x.t \in {"int", "float"} -> Returned(JInt(x.n))
    [] x.t = "str" -> Raised("ValueError")
    [] OTHER -> Raised("TypeError")

\* a - b and max(0, .) on numbers; None and strings do not subtract.
IsNumber(x) == x.t \in {"int", "float"}

\* datetime.utcnow() at the call, as strftime('%Y%m%d_%H%M%S') and isoformat()
NowStamp == <<"2", "0", "2", "5", "0", "1", "2", "0", "_", "1", "4", "3", "0", "2", "2">>

NowIso == <<"2", "0", "2", "5", "-", "0", "1", "-", "2", "0", "T", "1", "4", ":", "3", "0", ":", "2", "2">>

\* The dict every converter returns.
KrispPayload(meeting_id, title, raw_content, duration, start_date, speakers, source) ==
  [event |-> JStr(S_transcript_created),
   meeting_id |-> JStr(meeting_id),
   title |-> JStr(title),
   data |-> [raw_content |-> JStr(raw_content),
             meeting |-> [id |-> JStr(meeting_id), title |-> JStr(title),
                          duration |-> duration, start_date |-> start_date,
                          speakers |-> speakers]],
   krispy_live |-> [source |-> source]]

\* for utt in utterances: the lines and the speakers seen, or the exception.
RECURSIVE AssemblyLoop(_, _, _, _)
AssemblyLoop(utterances, i, lines, speakers_seen) ==
  IF i > Len(utterances) THEN Returned([lines |-> lines, speakers_seen |-> speakers_seen])
  ELSE
    LET utt == utterances[i]
        speaker == ItemGet(utt, "speaker", JStr(<<"A">>))
        speaker_name == S_Speaker \o PyFormat(speaker.value)
        start_ms == ItemGet(utt, "start", JInt(0))
        text == PyStrip(ItemGet(utt, "text", JStr(<<>>)).value)
        timestamp == format_timestamp(start_ms.value)
    IN  IF speaker.raised # "" THEN Raised(speaker.raised)
        ELSE IF text.raised # "" THEN Raised(text.raised)
        ELSE IF timestamp.raised # "" THEN Raised(timestamp.raised)
        ELSE AssemblyLoop(utterances, i + 1,
               lines \o <<speaker_name \o S_bar \o timestamp.value, text.value.s, <<>>>>,
               speakers_seen \cup {speaker_name})

convert_assemblyai_to_krisp(payload) ==
  LET utterances == PayloadGet(payload, "utterances", JList(<<>>)).items
      loop == AssemblyLoop(utterances, 1, <<>>, {})
      audio_duration == PayloadGet(payload, "audio_duration", JInt(0))
      duration_ms == IF ~PyBool(audio_duration) /\ utterances # <<>>
                     THEN ItemGet(utterances[Len(utterances)], "end", JInt(0)).value
                     ELSE audio_duration
      duration_seconds == FloorDiv1000(duration_ms)
      transcript_id == PayloadGet(payload, "id", JStr(<<>>))
      meeting_id == IF PyBool(transcript_id)
                    THEN S_assemblyai_ \o PyFormat(transcript_id)
                    ELSE S_meeting_ \o NowStamp
  IN  IF loop.raised # "" THEN Raised(loop.raised)
      ELSE IF duration_seconds.raised # "" THEN Raised(duration_seconds.raised)
      ELSE Returned(KrispPayload(meeting_id, S_Krispy_Live_Recording,
                                 JoinWith(loop.value.lines, <<"\n">>),
                                 duration_seconds.value, JStr(NowIso \o <<"Z">>),
                                 loop.value.speakers_seen, "assemblyai"))

\* for seg in segments
RECURSIVE WhisperLoop(_, _, _)
WhisperLoop(segments, i, lines) ==
  IF i > Len(segments) THEN Returned(lines)
  ELSE
    LET seg == segments[i]
        start_seconds == ItemGet(seg, "start", JInt(0))
        text == PyStrip(ItemGet(seg, "text", JStr(<<>>)).value)
        timestamp == format_timestamp_seconds(start_seconds.value)
    IN  IF start_seconds.raised # "" THEN Raised(start_seconds.raised)
        ELSE IF text.raised # "" THEN Raised(text.raised)
        ELSE IF text.value.s = <<>> THEN WhisperLoop(segments, i + 1, lines)
        ELSE IF timestamp.raised # "" THEN Raised(timestamp.raised)
        ELSE WhisperLoop(segments, i + 1,
               lines \o <<S_Speaker_1_bar \o timestamp.value, text.value.s, <<>>>>)

convert_whisper_to_krisp(payload) ==
  LET segments == PayloadGet(payload, "segments", JList(<<>>)).items
      loop == WhisperLoop(segments, 1, <<>>)
      duration_seconds == IF segments # <<>>
                          THEN PyInt(ItemGet(segments[Len(segments)], "end", JInt(0)).value)
                          ELSE Returned(JInt(0))
      meeting_id == S_whisper_ \o NowStamp
  IN  IF loop.raised # "" THEN Raised(loop.raised)
      ELSE IF duration_seconds.raised # "" THEN Raised(duration_seconds.raised)
      ELSE Returned(KrispPayload(meeting_id, S_Krispy_Live_Recording,
                                 JoinWith(loop.value, <<"\n">>),
                                 duration_seconds.value, JStr(NowIso \o <<"Z">>),
                                 {S_Speaker_1}, "whisper"))

\* max(0, ts - created_at if created_at else 0)
TurnOffset(ts, created_at) ==
  IF ~PyBool(created_at) THEN Returned(JInt(0))
  ELSE IF ~IsNumber(ts) \/ ~IsNumber(created_at) THEN Raised("TypeError")
  ELSE Returned(JInt(IF ts.n > created_at.n THEN ts.n - created_at.n ELSE 0))

\* for turn in turns
RECURSIVE GeminiLoop(_, _, _, _, _)
GeminiLoop(turns, created_at, i, lines, speakers_seen) ==
  IF i > Len(turns) THEN Returned([lines |-> lines, speakers_seen |-> speakers_seen])
  ELSE
    LET turn == turns[i]
        role == ItemGet(turn, "role", JStr(S_user))
        speaker_name == IF role.value = JStr(S_user) THEN S_You ELSE S_Gemini_Assistant
        text == PyStrip(ItemGet(turn, "text", JStr(<<>>)).value)
        ts == ItemGet(turn, "ts", JInt(0)).value
        offset_seconds == TurnOffset(ts, created_at)
        timestamp == format_timestamp_seconds(offset_seconds.value)
    IN  IF role.raised # "" THEN Raised(role.raised)
        ELSE IF text.raised # "" THEN Raised(text.raised)
        ELSE IF offset_seconds.raised # "" THEN Raised(offset_seconds.raised)
        ELSE IF timestamp.raised # "" THEN Raised(timestamp.raised)
        ELSE GeminiLoop(turns, created_at, i + 1,
               IF text.value.s = <<>> THEN lines
               ELSE lines \o <<speaker_name \o S_bar \o timestamp.value, text.value.s, <<>>>>,
               speakers_seen \cup {speaker_name})

\* datetime.utcfromtimestamp(created_at).isoformat(), for a time in seconds
\* that datetime can represent (the values drawn here).
IsoOfTimestamp(created_at) == [t |-> "str", utc_seconds |-> created_at.n]

convert_gemini_to_krisp(payload) ==
  LET turns == PayloadGet(payload, "turns", JList(<<>>)).items
      created_at == PayloadGet(payload, "created_at", JInt(0))
      loop == GeminiLoop(turns, created_at, 1, <<>>, {})
      last_ts == ItemGet(turns[Len(turns)], "ts", created_at).value
      duration_seconds ==
        IF turns # <<>> /\ PyBool(created_at)
        THEN (IF IsNumber(last_ts) /\ IsNumber(created_at) /\ last_ts.n >= created_at.n
              THEN Returned(JInt(last_ts.n - created_at.n))
              ELSE Raised("TypeError"))
        ELSE Returned(JInt(0))
      meeting_id == S_gemini_ \o NowStamp
      start_date == IF PyBool(created_at) THEN IsoOfTimestamp(created_at)
                    ELSE JStr(NowIso \o <<"Z">>)
  IN  IF loop.raised # "" THEN Raised(loop.raised)
      ELSE IF duration_seconds.raised # "" THEN Raised(duration_seconds.raised)
      ELSE Returned(KrispPayload(meeting_id, S_Gemini_Live_Conversation,
                                 JoinWith(loop.value.lines, <<"\n">>),
                                 duration_seconds.value, start_date,
                                 loop.value.speakers_seen, "gemini_live"))

\* s.split('/')[-1]
RECURSIVE LastPart(_)
LastPart(s) ==
  IF \E i \in DOMAIN s : s[i] = "/"
  THEN LastPart(SubSeq(s, 1 + (CHOOSE i \in DOMAIN s : s[i] = "/"), Len(s)))
  ELSE s

\* s.replace(old, ''), old non-empty
RECURSIVE RemoveAll(_, _)
RemoveAll(s, old) ==
  IF s = <<>> THEN <<>>
  ELSE IF StartsWith(s, old) THEN RemoveAll(SubSeq(s, Len(old) + 1, Len(s)), old)
  ELSE <<Head(s)>> \o RemoveAll(Tail(s), old)

convert_krispy_webhook_to_krisp(payload) ==
  LET assembly_text == PayloadGet(payload, "assembly_text", JNull)
      text == IF PyBool(assembly_text) THEN assembly_text
              ELSE PayloadGet(payload, "whisper_text", JStr(<<>>))
      timestamp_str == PayloadGet(payload, "timestamp", JStr(NowIso))
      audio_path == PayloadGet(payload, "audio_path", JStr(<<>>))
      meeting_id == IF PyBool(audio_path) THEN RemoveAll(LastPart(audio_path.s), S_wav)
                    ELSE S_meeting_ \o NowStamp
      raw_content == S_header \o PyFormat(text)
      source == IF PyBool(assembly_text) THEN "assemblyai" ELSE "whisper"
  IN  IF PyBool(audio_path) /\ audio_path.t # "str" THEN Raised("AttributeError")
      ELSE Returned(KrispPayload(meeting_id, S_Krispy_Live_Recording, raw_content,
                                 JInt(0), timestamp_str, {S_Speaker_1}, source))

\* The format name, "None" for a standard Krisp payload, or the exception of
\* a membership test on a first element that is no container.
detect_krispy_live_format(payload) ==
  LET segments == payload.segments
      turns == payload.turns
      speaker_in == PyIn("speaker", segments.items[1])
      role_in == PyIn("role", turns.items[1])
      gemini == IF turns.t = "list" /\ PyBool(turns)
                THEN (IF role_in.raised # "" THEN Raised(role_in.raised)
                      ELSE IF role_in.value THEN Returned("gemini")
                      ELSE Returned("None"))
                ELSE Returned("None")
  IN  IF HasKey(payload, "assembly_text") \/ HasKey(payload, "whisper_text")
      THEN Returned("webhook")
      ELSE IF HasKey(payload, "utterances") /\ payload.utterances.t = "list"
      THEN Returned("assemblyai")
      ELSE IF segments.t = "list" /\ PyBool(segments)
      THEN (IF speaker_in.raised # "" THEN Raised(speaker_in.raised)
            ELSE IF ~speaker_in.value THEN Returned("whisper")
            ELSE gemini)
      ELSE gemini

transform_passthrough(payload) == Returned(payload)

transform_krispy_live_payload(payload) ==
  LET format_type == detect_krispy_live_format(payload)
  IN  IF format_type.raised # "" THEN Raised(format_type.raised)
      ELSE IF format_type.value = "assemblyai" THEN convert_assemblyai_to_krisp(payload)
      ELSE IF format_type.value = "whisper" THEN convert_whisper_to_krisp(payload)
      ELSE IF format_type.value = "gemini" THEN convert_gemini_to_krisp(payload)
      ELSE IF format_type.value = "webhook" THEN convert_krispy_webhook_to_krisp(payload)
      ELSE Returned(payload)

\* The bodies a caller can post.
TextValues == {Missing, JNull, JStr(S_hi), JStr(<<" ">>)}

Utterances ==
  {JItem(Missing, Missing, start, Missing, Missing, text) :
     start \in {Missing, JInt(61000), JFloat(1500)}, text \in TextValues \ {JStr(<<" ">>)}}
  \cup {JStr(<<"x">>)}

Segments ==
  {JItem(speaker, Missing, JFloat(61), JFloat(62), Missing, text) :
     speaker \in {Missing, JStr(<<"A">>)}, text \in TextValues}
  \cup {JStr(<<"x">>), JNull}

Turns ==
  {JItem(Missing, role, Missing, Missing, JInt(161), text) :
     role \in {Missing, JStr(S_user), JStr(<<"a">>)}, text \in TextValues \ {Missing}}
  \cup {JStr(<<"x">>)}

GoodUtterance == JItem(JStr(<<"B">>), Missing, JInt(0), JInt(900), Missing, JStr(S_hi))

GoodSegment == JItem(Missing, Missing, JInt(0), JInt(5), Missing, JStr(S_hi))

GoodTurn == JItem(Missing, JStr(S_user), Missing, Missing, JInt(161), JStr(S_hi))

ListsOf(items) == {JList(l) : l \in SeqsUpTo(items, MaxItems)}

StandardData == [raw_content |-> JStr(S_hi)]

InitWebhook ==
  /\ ProvidersIdle
  /\ \E payload \in
        {Payload(Missing, Missing, assembly_text, whisper_text, utterances, Missing, Missing,
                 audio_path, Missing) :
           assembly_text \in {Missing, JNull, JStr(S_hi)},
           whisper_text \in {Missing, JNull, JStr(<<"w">>)},
           utterances \in {Missing, JList(<<GoodUtterance>>)},
           audio_path \in {Missing, JInt(5), JStr(<<"/", "p", "/", "m">> \o S_wav)}}
        \cup
        {Payload(Missing, Missing, Missing, Missing, utterances, segments, turns,
                 Missing, Missing) :
           utterances \in {JNull} \cup ListsOf(Utterances),
           segments \in {Missing, JList(<<GoodSegment>>)},
           turns \in {Missing, JList(<<GoodTurn>>)}}
        \cup
        {Payload(Missing, Missing, Missing, Missing, utterances, segments, turns,
                 Missing, Missing) :
           utterances \in {Missing, JNull},
           segments \in {JStr(<<"x">>)} \cup ListsOf(Segments),
           turns \in {Missing, JList(<<GoodTurn>>)}}
        \cup
        {Payload(event, data, Missing, Missing, Missing, segments, turns,
                 Missing, created_at) :
           event \in {Missing, JStr(S_transcript_created)},
           data \in {Missing, StandardData},
           segments \in {Missing, JList(<<>>),
                         JList(<<JItem(JStr(<<"A">>), Missing, Missing, Missing, Missing,
                                       JStr(S_hi))>>)},
           turns \in {Missing, JStr(<<"x">>)} \cup ListsOf(Turns),
           created_at \in {Missing, JInt(100)}} :
       io = IoInput("transform_krispy_live_payload", [payload |-> payload])

transform_krispy_live_payload_call ==
  /\ io.fn = "transform_krispy_live_payload"
  /\ ~io.done
  /\ io' = [io EXCEPT !.done = TRUE, !.out = transform_krispy_live_payload(io.in.payload)]
  /\ UNCHANGED providerVars

NextWebhook == transform_krispy_live_payload_call

SpecWebhook == InitWebhook /\ [][NextWebhook]_vars

\* ================================================================== properties
ItemIds(ret) == {it[1] : it \in ret.items}

SecondaryFailed(out) == out.raised # "" \/ ~AllOk(out.reqs)

FailedPayload(reqs) ==
  LET F[i \in 0..Len(reqs)] ==
        IF i = 0 THEN <<>>
        ELSE IF reqs[i].ok THEN F[i - 1] ELSE F[i - 1] \o reqs[i].payload
  IN  F[Len(reqs)]

AllPayload(reqs) ==
  LET F[i \in 0..Len(reqs)] == IF i = 0 THEN <<>> ELSE F[i - 1] \o reqs[i].payload
  IN  F[Len(reqs)]

\* What a search served after a write shows of it: stored ids are found, deleted
\* ids are not, a by-meeting delete removed as many vectors of the meeting as it
\* reported, updated metadata is the one returned.
Reflects(op, arg, before, ret, found) ==
  CASE op = "store" -> arg[1] \in ItemIds(found)
    [] op = "store_batch" -> Range(arg) \subseteq ItemIds(found)
    [] op = "delete" -> arg[1] \notin ItemIds(found)
    [] op = "delete_batch" -> Range(arg) \cap ItemIds(found) = {}
    [] op = "delete_by_meeting_id" ->
         Cardinality(MatchingMeeting(before, arg[1]))
           - Cardinality({d \in ItemIds(found) : MeetingOf(d) = arg[1]}) = ret.successful
    [] op = "update_metadata" -> arg[1] \in before.ids => <<arg[1], TRUE>> \in found.items
    [] OTHER -> TRUE

InFlight(id) == (\E i \in 1..Len(queue) : queue[i].id = id) \/ (\E t \in running : t.id = id)

\* C1: for every DualProvider write whose primary requests all succeeded, (a) a
\* search on the DualProvider right after the primary part shows the write, and
\* (b) when the secondary write then fails (raises, or a request of it fails), the
\* caller had got exactly the primary's result, the failure changed nothing in
\* the primary, and nothing was raised to the caller.
C1_PrimaryAuthority ==
  /\ (last.ev = "primary" /\ last.out.raised = "" /\ last.task.pok)
       => Reflects(last.op, last.arg, last.before, last.out.ret,
                   DualReadCall("search", {}).ret)
  /\ (last.ev = "secondary" /\ last.task.pok /\ SecondaryFailed(last.out))
       => /\ last.task.ret = last.task.pres
          /\ pStore = last.before

C1_Witness ==
  /\ last.ev = "secondary"
  /\ last.op = "store_batch"
  /\ last.task.pok
  /\ last.task.ret.successful = NumIds
  /\ last.out.ret.failed > 0
  /\ Range(last.arg) \subseteq pStore.ids
  /\ ~(Range(last.arg) \subseteq sStore.ids)

\* C2: a caller whose primary call has returned can always take its submit step
\* and return, whatever the number of queued and running secondary writes.
C2_CallerNeverStalls == \A c \in Callers : pc[c] = "submit" => ENABLED DualSubmit(c)

C2_Witness ==
  /\ \E c \in Callers : pc[c] = "submit"
  /\ Cardinality(running) = MaxWorkers
  /\ ~shutdown

\* C3 (as stated): every write the primary executed is handed to the executor, so
\* that a fairly scheduled worker attempts it on the secondary: when the caller's
\* call has returned, the write is queued or running until a worker has run it.
C3_EveryPrimaryWriteDispatched == last.ev = "return" => InFlight(last.task.id)

\* C4: a read is served by the primary only: the backend it calls is the primary
\* and the value (or exception) is the one the primary gives for that call.
C4_ReadsPrimaryOnly ==
  last.ev = "read" =>
    /\ last.target = "primary"
    /\ last.out = ProviderCall(pk, pStore, last.op, <<>>, last.fl)

C4_Witness ==
  /\ last.ev = "read"
  /\ last.op = "search"
  /\ last.out.raised = ""
  /\ ItemIds(last.out.ret) # {}
  /\ sStore.ids # pStore.ids

\* C5: when close() has returned, no dispatched secondary write is queued or
\* running: each one was taken and run by a worker.
C5_CloseDrains == closePc = "closed" => (queue = <<>> /\ running = {})

C5_Witness == closePc = "closed" /\ last.ev = "secondary" /\ last.phase = "joining"

\* C6: at most max_workers secondary writes execute at the same time.
C6_AtMostPoolSize == Cardinality(running) <= MaxWorkers

C6_Witness == Cardinality(running) = MaxWorkers /\ queue # <<>>

\* C7: every store_batch and delete_batch that returns (on either backend and
\* through the DualProvider) accounts for its whole input: successful + failed
\* equals the length of the input list.
C7_BatchAccounting ==
  (last.op \in {"store_batch", "delete_batch"} /\ last.ev \in {"call", "primary", "return"}
     /\ last.out.raised = "")
    => last.out.ret.successful + last.out.ret.failed = Len(last.arg)

C7_Witness ==
  /\ last.ev = "return"
  /\ last.op = "store_batch"
  /\ last.out.ret.successful > 0
  /\ last.out.ret.failed > 1

\* C8: store_batch sends the input, in order, in sub-batches of 1..max_batch_size
\* documents; every sub-batch is sent whatever happened to the earlier ones; the
\* documents of the failed sub-batches, and only they, are counted failed and get
\* an error entry each; the documents of the other sub-batches are stored.
C8_SubBatchFailures ==
  (last.ev = "call" /\ last.op = "store_batch") =>
    LET reqs == last.out.reqs
        ret == last.out.ret
    IN  /\ AllPayload(reqs) = last.arg
        /\ \A i \in 1..Len(reqs) : Len(reqs[i].payload) \in 1..BatchSize
        /\ {i \in 1..Len(reqs) : ~reqs[i].ok} = last.fl
        /\ ret.failed = Len(FailedPayload(reqs))
        /\ ret.errors = ErrorsFor(FailedPayload(reqs))
        /\ ret.successful = Len(last.arg) - Len(FailedPayload(reqs))
        /\ \A i \in 1..Len(reqs) : reqs[i].ok => Range(reqs[i].payload) \subseteq pStore.ids
        /\ last.before.ids \subseteq pStore.ids

C8_Witness ==
  /\ last.ev = "call"
  /\ last.op = "store_batch"
  /\ Len(last.out.reqs) = 2
  /\ ~last.out.reqs[1].ok
  /\ last.out.reqs[2].ok
  /\ Range(last.out.reqs[2].payload) \cap last.before.ids = {}

\* C9 (as stated): a single-document store or delete, an update_metadata or a
\* search on a single backend raises when a backend request of the call fails.
C9_TransportErrorRaises ==
  (last.ev = "call" /\ last.op \in {"store", "delete", "update_metadata", "search"}
     /\ ~AllOk(last.out.reqs))
    => last.out.raised # ""

\* C10 (as stated): after delete_by_meeting_id(m) returns with failed = 0 the
\* backend holds no vector of meeting m, and the other meetings' vectors are
\* unchanged.
C10_DeleteByMeetingRemovesAll ==
  (last.ev = "call" /\ last.op = "delete_by_meeting_id" /\ last.out.raised = ""
     /\ last.out.ret.failed = 0)
    => /\ MatchingMeeting(pStore, last.arg[1]) = {}
       /\ pStore.ids \ MatchingMeeting(pStore, last.arg[1])
            = last.before.ids \ MatchingMeeting(last.before, last.arg[1])

\* C11 (as stated): delete_by_meeting_id for a meeting without stored vectors,
\* when every backend request of the call succeeds, returns successful = 0 and
\* failed = 0 with no error entry and without raising, on both backends and for
\* every success answer of the backend; the managed backend gets no delete
\* request; the backend contents are unchanged.
C11_NoMatchDeleteIsClean ==
  (last.ev = "call" /\ last.op = "delete_by_meeting_id"
     /\ MatchingMeeting(last.before, last.arg[1]) = {} /\ AllOk(last.out.reqs))
    => /\ last.out.raised = ""
       /\ last.out.ret.successful = 0
       /\ last.out.ret.failed = 0
       /\ last.out.ret.errors = <<>>
       /\ \A i \in 1..Len(last.out.reqs) : last.out.reqs[i].name # "delete"
       /\ pStore = last.before

\* C12: on the managed backend update_metadata and get_vector_count raise
\* NotImplementedError at once: no backend request is sent, not even a repeated
\* one, and the stored vectors and their metadata are unchanged.
C12_UnsupportedFailFast ==
  (last.ev = "call" /\ pk = "s3-vectors" /\ last.op \in {"update_metadata", "get_vector_count"})
    => /\ last.out.raised = "NotImplementedError"
       /\ last.out.reqs = <<>>
       /\ pStore = last.before

C12_Witness ==
  /\ last.ev = "call"
  /\ pk = "s3-vectors"
  /\ last.op = "update_metadata"
  /\ last.arg[1] \in last.before.ids
  /\ last.out.raised = "NotImplementedError"

\* C13 (as stated): the list search returns is in descending score order, has at
\* most top_k results, and with min_score set holds no result below it, for every
\* answer of the backend, scored or not.
C13_SearchOrdered ==
  (io.fn \in {"S3.search", "Ru.search"} /\ io.done)
    => /\ Descending(io.out)
       /\ Len(io.out) <= io.in.top_k
       /\ \A i \in 1..Len(io.out) : Passes(io.out[i].score, io.in.min_score)

GroupOf(results, m) == {i \in 1..Len(results) : results[i].meeting_id = m}

\* C14: search_by_meeting returns one MeetingSearchResult per distinct non-empty
\* meeting_id of the results and none for results without a meeting id; its score
\* is the maximum score of the meeting's results, matching_chunks their number;
\* the list is in descending score order.
C14_MeetingAggregation ==
  (io.fn = "search_by_meeting" /\ io.done)
    => /\ {io.out[k].meeting_id : k \in 1..Len(io.out)}
            = {io.in[i].meeting_id : i \in 1..Len(io.in)} \ {""}
       /\ \A k \in 1..Len(io.out) : \A j \in 1..Len(io.out) :
            io.out[k].meeting_id = io.out[j].meeting_id => k = j
       /\ \A k \in 1..Len(io.out) :
            LET g == GroupOf(io.in, io.out[k].meeting_id)
            IN  /\ io.out[k].matching_chunks = Cardinality(g)
                /\ \E i \in g : io.in[i].score = io.out[k].score
                /\ \A i \in g : io.in[i].score <= io.out[k].score
       /\ Descending(io.out)

C14_Witness ==
  /\ io.fn = "search_by_meeting"
  /\ io.done
  /\ Len(io.out) = 2
  /\ \E i \in 1..Len(io.in) : io.in[i].meeting_id = ""
  /\ io.out[1].matching_chunks = 2
  /\ io.out[1].meeting_id # io.in[1].meeting_id
  /\ io.out[1].score > io.out[2].score
  /\ \E i \in GroupOf(io.in, io.out[1].meeting_id) : io.in[i].score < io.out[1].score

\* C15 (as stated): the snippets of a MeetingSearchResult are the texts of the
\* highest-scoring chunks of the meeting that have a text, up to 3 of them: no
\* chunk with a text that was left out scores higher than one whose text is a
\* snippet, whatever the order of the results.
C15_SnippetsAreTopScoring ==
  (io.fn = "search_by_meeting" /\ io.done)
    => \A k \in 1..Len(io.out) :
         LET g == {i \in GroupOf(io.in, io.out[k].meeting_id) : io.in[i].text # <<>>}
             chosen == {i \in g : io.in[i].text \in Range(io.out[k].snippets)}
         IN  /\ Len(io.out[k].snippets) = Min(SnippetLimit, Cardinality(g))
             /\ Cardinality(chosen) = Len(io.out[k].snippets)
             /\ \A i \in chosen : \A j \in g \ chosen : io.in[i].score >= io.in[j].score

\* A real speaker name as the claims word it: not "speaker N" in any case, not one
\* of the placeholders "unknown", "guest", "participant" in any case, and at least
\* 2 characters long.
IsRealName(s) ==
  /\ ~StartsWith(Lower(s), S_speaker)
  /\ Lower(s) \notin {S_unknown, S_guest, S_participant}
  /\ Len(s) >= 2

\* C16 (as stated): the speakers process_transcript keeps are exactly the real
\* names of the input, in input order.
C16_RealSpeakersKept ==
  (io.fn = "process_transcript" /\ io.done /\ io.out.chunks # <<>>)
    => io.out.real_speakers = SelectSeq(io.in.speakers, IsRealName)

\* C17 (as stated): the speaker metadata of every document of process_transcript
\* is the first real name, else the first raw speaker label when the speaker list
\* is non-empty, else "unknown".
C17_PrimarySpeaker ==
  (io.fn = "process_transcript" /\ io.done)
    => LET real == SelectSeq(io.in.speakers, IsRealName)
           expected == IF real # <<>> THEN real[1]
                       ELSE IF io.in.speakers # <<>> THEN io.in.speakers[1] ELSE S_unknown
       IN  \A i \in 1..Len(io.out.documents) : io.out.documents[i].speaker = expected

\* C18 (as stated): with at least one real name, the text embedded for every chunk
\* is "Meeting participants: {names joined by ', '}. " followed by the chunk; with
\* no real name it is the chunk itself; the text metadata is the chunk without
\* the prefix, cut to the text limit.
C18_ContextOnlyInEmbedding ==
  (io.fn = "process_transcript" /\ io.done)
    => LET real == SelectSeq(io.in.speakers, IsRealName)
       IN  \A i \in 1..Len(io.out.documents) :
             LET d == io.out.documents[i]
             IN  /\ d.embedded = SpeakerContext(real) \o io.out.chunks[i]
                 /\ Len(d.text) <= TextLimit
                 /\ d.text = SubSeq(io.out.chunks[i], 1, Len(d.text))
                 /\ Len(io.out.chunks[i]) <= TextLimit => d.text = io.out.chunks[i]

ChunkFns == {"MemoryProvider.chunk_text", "EmbeddingProvider.chunk_text", "embeddings.chunk_text"}

\* The chunk_text call of the function named in io.
ChunkCall ==
  \/ Provider_chunk_text_call
  \/ EmbeddingProvider_chunk_text_call
  \/ embeddings_chunk_text_call

\* The chunks are windows of the source words at the given (0-based) starts.
WindowsAt(words, chunks, starts) ==
  \A k \in 1..Len(chunks) :
    LET w == Split(chunks[k])
    IN  starts[k] + Len(w) <= Len(words) /\ w = SubSeq(words, starts[k] + 1, starts[k] + Len(w))

\* C19: for every non-empty text and chunk_size > overlap >= 0 each of the three
\* chunk_text functions returns (the call can always complete), and its chunks are
\* windows of the source words at non-decreasing positions that together cover
\* every word of the text.
C19_ChunkingCoverage ==
  (io.fn \in ChunkFns /\ io.in.text # <<>>)
    => /\ ~io.done => ENABLED ChunkCall
       /\ io.done =>
            LET words == Split(io.in.text)
                chunks == io.out
            IN  \E starts \in [1..Len(chunks) -> 0..Len(words)] :
                  /\ WindowsAt(words, chunks, starts)
                  /\ \A k \in 1..Len(chunks) : \A j \in 1..Len(chunks) :
                       k < j => starts[k] <= starts[j]
                  /\ \A i \in 1..Len(words) :
                       \E k \in 1..Len(chunks) :
                         starts[k] < i /\ i <= starts[k] + Len(Split(chunks[k]))

C19_Witness ==
  /\ io.fn = "MemoryProvider.chunk_text"
  /\ io.done
  /\ Len(Split(io.in.text)) = 3
  /\ io.in.chunk_size = 2
  /\ io.in.overlap = 1
  /\ Len(io.out) = 3

LastWords(w, n) == SubSeq(w, Len(w) - Min(n, Len(w)) + 1, Len(w))

FirstWords(w, n) == SubSeq(w, 1, Min(n, Len(w)))

\* C20 (as stated): for every two consecutive chunks other than the last pair, the
\* last overlap words of the first are the first overlap words of the second, and
\* both have that many words.
C20_ExactOverlap ==
  (io.fn \in ChunkFns /\ io.done)
    => \A k \in 1..Len(io.out) :
         k + 1 < Len(io.out) =>
           LET a == Split(io.out[k])
               b == Split(io.out[k + 1])
           IN  /\ Len(a) >= io.in.overlap
               /\ Len(b) >= io.in.overlap
               /\ LastWords(a, io.in.overlap) = FirstWords(b, io.in.overlap)

\* C21 (as stated): a chunk_text call on a text of at most chunk_size words
\* returns the whole text as its only chunk, or no chunk when the text is blank;
\* process_transcript on content of at most the default chunk size in words
\* hands exactly one document to the store, and none on blank content.
C21_ShortTextOneChunk ==
  /\ (io.fn \in ChunkFns /\ io.done /\ Len(Split(io.in.text)) <= io.in.chunk_size)
       => io.out = (IF Strip(io.in.text) = <<>> THEN <<>> ELSE <<io.in.text>>)
  /\ (io.fn = "process_transcript" /\ io.done
        /\ Len(Split(io.in.content)) <= DefaultChunkSize)
       => Len(io.out.documents) = (IF Strip(io.in.content) = <<>> THEN 0 ELSE 1)

\* C29 (as stated): the chunks of a chunk_text call are windows of the source
\* words, in order and covering the text, such that every chunk after the first
\* ends after the chunk before it ends: it has a word the preceding chunk does
\* not cover.
C29_EveryChunkAddsAWord ==
  (io.fn \in ChunkFns /\ io.done)
    => LET words == Split(io.in.text)
           chunks == io.out
       IN  \E starts \in [1..Len(chunks) -> 0..Len(words)] :
             /\ WindowsAt(words, chunks, starts)
             /\ \A i \in 1..Len(words) :
                  \E k \in 1..Len(chunks) :
                    starts[k] < i /\ i <= starts[k] + Len(Split(chunks[k]))
             /\ \A k \in 2..Len(chunks) :
                  /\ starts[k - 1] <= starts[k]
                  /\ starts[k] + Len(Split(chunks[k]))
                       > starts[k - 1] + Len(Split(chunks[k - 1]))

WordsOf(chunks) == [k \in 1..Len(chunks) |-> Split(chunks[k])]

\* C30 (as stated): on every text and chunk_size > overlap >= 0 the chunks of
\* MemoryProvider.chunk_text and of EmbeddingProvider.chunk_text are equally many
\* and hold the same word sequences.
C30_ChunkersAgree ==
  /\ (io.fn = "MemoryProvider.chunk_text" /\ io.done)
       => WordsOf(io.out)
            = WordsOf(EmbeddingProvider_chunk_text(io.in.text, io.in.chunk_size,
                                                   io.in.overlap))
  /\ (io.fn = "EmbeddingProvider.chunk_text" /\ io.done)
       => WordsOf(io.out)
            = WordsOf(Provider_chunk_text(io.in.text, io.in.chunk_size, io.in.overlap))

TasksInFlight == Range(queue) \cup running

\* C25: a write reaches the secondary only through a caller whose primary call
\* returned: a primary call that raises ends the write with that exception and
\* changes neither the executor nor the secondary; a caller gets to its submit
\* only from a primary call that returned; a work item enters the executor only
\* from such a caller; and the secondary changes only by running such an item.
C25_SecondaryAfterPrimary ==
  [][/\ (last' # last /\ last'.ev = "primary" /\ last'.out.raised # "")
          => /\ pc' = pc /\ cur' = cur
             /\ queue' = queue /\ running' = running /\ sStore' = sStore
     /\ \A c \in Callers :
          (pc[c] = "idle" /\ pc'[c] = "submit")
            => /\ last'.ev = "primary" /\ last'.out.raised = ""
               /\ cur'[c] = last'.task
     /\ \A t \in TasksInFlight' \ TasksInFlight :
          \E c \in Callers : pc[c] = "submit" /\ cur[c].id = t.id /\ pc'[c] = "idle"
     /\ sStore' # sStore
          => (last'.ev = "secondary" /\ last'.task \in running)]_vars

C25_Witness ==
  /\ last.ev = "primary"
  /\ last.op = "store"
  /\ last.out.raised # ""
  /\ \A c \in Callers : pc[c] = "idle"
  /\ TasksInFlight = {}
  /\ sStore = EmptyStore

\* C26 (as stated): a write whose primary call was made after close() was called
\* returns to its caller the primary's result, without raising, and leaves the
\* primary as the primary call made it.
C26_WriteAfterClose ==
  [][\A c \in Callers :
       (/\ pc[c] = "submit" /\ pc'[c] = "idle"
        /\ last.ev = "primary" /\ last.task = cur[c] /\ last.phase # "open")
         => /\ last'.ev = "return"
            /\ last'.out.raised = ""
            /\ last'.out.ret = cur[c].pres
            /\ pStore' = last.out.st]_vars

\* C27 (as stated): one sequential caller stores and deletes through a
\* DualProvider over two empty backends, no backend request fails, and the caller
\* then closes the provider: when close() has returned the secondary holds the
\* ids the primary holds.
C27_SecondaryConverges == closePc = "closed" => sStore.ids = pStore.ids

\* C27 (amended): the same, for a caller that does not both store and delete
\* the same document.
C27_ConvergesWithoutRewrites ==
  (closePc = "closed" /\ io.in.stores \cap io.in.deletes = {})
    => sStore.ids = pStore.ids

C27_Witness ==
  /\ closePc = "closed"
  /\ io.in.stores \cap io.in.deletes = {}
  /\ io.in.deletes # {}
  /\ nops = MaxOps
  /\ pStore.ids # {}
  /\ sStore.ids = pStore.ids
  /\ last.ev = "secondary"
  /\ last.task.id < nops

\* The number a string of decimal digits denotes.
RECURSIVE DecimalValue(_)
DecimalValue(digits) ==
  IF digits = <<>> THEN 0
  ELSE 10 * DecimalValue(SubSeq(digits, 1, Len(digits) - 1))
       + (CHOOSE d \in 0..9 : DigitChar(d) = digits[Len(digits)])

IsDigits(s) == \A i \in 1..Len(s) : \E d \in 0..9 : DigitChar(d) = s[i]

\* C28: process_transcript makes every embedding request before its store_batch
\* call; when the transcript has chunks and the embedding of one of them fails,
\* or no embedding provider is configured, the call raises, store_batch is not
\* called and the backend is as before; otherwise store_batch is called once,
\* with one document per chunk, document i (from 0) having chunk_index i and the
\* id meeting_id, "_chunk_", i in 4 decimal digits, all ids different.
C28_EmbedBeforeStore ==
  (io.fn = "process_transcript.store" /\ io.done)
    => LET chunks == Provider_chunk_text(io.in.content, DefaultChunkSize, DefaultOverlap)
           n == Len(chunks)
           calls == io.out.calls
           failed == ~io.in.configured \/ io.in.fail_at \in 1..n
           stores == SelectSeq(calls, LAMBDA c : c.call = "store_batch")
       IN  /\ \A i \in 1..Len(calls) : \A j \in 1..Len(calls) :
                (calls[i].call = "store_batch" /\ i < j) => calls[j].call # "generate_embedding"
           /\ (n > 0 /\ failed)
                => /\ io.out.raised \in {"RuntimeError", "EmbeddingError"}
                   /\ stores = <<>>
                   /\ pStore = EmptyStore
           /\ (n > 0 /\ ~failed)
                => /\ Len(calls) = n + 1
                   /\ Len(stores) = 1
                   /\ LET docs == stores[1].documents
                          prefix == io.in.meeting_id \o S_chunk
                      IN  /\ Len(docs) = n
                          /\ \A i \in 1..n :
                               LET suffix == SubSeq(docs[i].id, Len(prefix) + 1, Len(docs[i].id))
                               IN  /\ docs[i].chunk_index = i - 1
                                   /\ SubSeq(docs[i].id, 1, Len(prefix)) = prefix
                                   /\ Len(suffix) = 4
                                   /\ IsDigits(suffix)
                                   /\ DecimalValue(suffix) = i - 1
                                   /\ docs[i].vector.of = calls[i].text
                          /\ \A i \in 1..n : \A j \in 1..n : i # j => docs[i].id # docs[j].id

C28_Witness ==
  /\ io.fn = "process_transcript.store"
  /\ io.done
  /\ io.in.configured
  /\ io.in.fail_at = 3
  /\ Len(io.out.calls) = 3
  /\ io.out.raised = "EmbeddingError"
  /\ pStore = EmptyStore

\* The provider type a factory call selects: the type argument when one is given,
\* else MEMORY_PROVIDER when it is set (else the default type applies).
SelectedType(c) ==
  IF c.call = "create_memory_provider" /\ ~c.arg.none THEN EnvValue(c.arg.value)
  ELSE io.in.MEMORY_PROVIDER

FailedFast(c, error) ==
  /\ c.raised = error
  /\ c.ret = NoInstance
  /\ ~c.created
  /\ memory_provider_instance = NoInstance

\* C22 (as stated): a create_memory_provider or get_memory_provider call that
\* selects "ab-router" or "mock" raises NotImplementedError, one that selects any
\* other string that is not a provider type raises ValueError; no provider is
\* returned or created and the singleton stays unset.
C22_UnknownTypeFailsFast ==
  \A i \in 1..Len(factory_calls) :
    LET c == factory_calls[i]
        selected == SelectedType(c)
    IN  (c.call \in {"create_memory_provider", "get_memory_provider"} /\ selected.set)
          => /\ selected.value \in {"ab-router", "mock"} => FailedFast(c, "NotImplementedError")
             /\ selected.value \notin ValidTypes => FailedFast(c, "ValueError")

IsGet(c) == c.call = "get_memory_provider" /\ c.raised = ""

Mutates(c) == c.call \in {"set_memory_provider", "reset_memory_provider"}

\* The position of the latest set or reset call before call j, 0 when none.
LatestMutation(j) ==
  LET before == {i \in 1..(j - 1) : Mutates(factory_calls[i])}
  IN  IF before = {} THEN 0 ELSE CHOOSE i \in before : \A h \in before : h <= i

\* C23: in any serialized sequence of get, reset and set calls, a get that
\* returns gives the instance passed to the latest set when no reset followed it,
\* and otherwise the instance that the first returning get since the latest
\* reset (or since the start) created; a provider is created only by such a first
\* get; two gets with no reset or set between them return the same instance; and
\* the registry holds what the latest get returned.
C23_RegistrySingleton ==
  \A j \in 1..Len(factory_calls) :
    LET c == factory_calls[j]
        k == LatestMutation(j)
        gets == {i \in (k + 1)..(j - 1) : IsGet(factory_calls[i])}
    IN  /\ IsGet(c) =>
             IF k > 0 /\ factory_calls[k].call = "set_memory_provider"
             THEN c.ret = factory_calls[k].arg /\ ~c.created
             ELSE IF gets = {} THEN c.created /\ c.ret.kind \in ValidTypes
             ELSE /\ ~c.created
                  /\ \A i \in gets : c.ret = factory_calls[i].ret
        /\ c.created =>
             /\ IsGet(c)
             /\ k = 0 \/ factory_calls[k].call = "reset_memory_provider"
             /\ gets = {}
             /\ \A i \in 1..(j - 1) : factory_calls[i].ret # c.ret
        /\ (IsGet(c) /\ j = Len(factory_calls)) => memory_provider_instance = c.ret

C23_Witness ==
  /\ Len(factory_calls) >= 3
  /\ IsGet(factory_calls[1]) /\ factory_calls[1].created
  /\ factory_calls[2].call = "set_memory_provider"
  /\ IsGet(factory_calls[3])
  /\ factory_calls[3].ret = factory_calls[2].arg
  /\ factory_calls[3].ret # factory_calls[1].ret

\* ---- C24
KrispyLiveFormats == {"assemblyai", "whisper", "gemini", "webhook"}

\* The result is a normalized payload: event 'transcript_created', data.raw_content present.
IsNormalized(r) ==
  /\ r.raised = ""
  /\ r.value.event = JStr(S_transcript_created)
  /\ "raw_content" \in DOMAIN r.value.data

\* An utterance, segment or turn of the documented shape: an object whose text,
\* where present, is a string and whose times, where present, are numbers
\* (integers of milliseconds for AssemblyAI).
ItemFollowsFormat(x, format) ==
  /\ x.t = "dict"
  /\ x.text.t \in {"missing", "str"}
  /\ \A key \in {"start", "end", "ts"} :
       x[key].t \in (IF format = "assemblyai" THEN {"missing", "int"}
                     ELSE {"missing", "int", "float"})

\* The payload follows the input format documented for the converter of its format.
FollowsFormat(payload, format) ==
  LET items == IF format = "assemblyai" THEN payload.utterances.items
               ELSE IF format = "whisper" THEN payload.segments.items
               ELSE IF format = "gemini" THEN payload.turns.items
               ELSE <<>>
  IN  /\ \A i \in DOMAIN items : ItemFollowsFormat(items[i], format)
      /\ payload.audio_path.t \in {"missing", "str"}
      /\ payload.audio_duration.t \in {"missing", "int", "float"}
      /\ payload.created_at.t \in {"missing", "int", "float"}

TransformDone == io.fn = "transform_krispy_live_payload" /\ io.done

\* C24 (as stated): transform_krispy_live_payload returns the payload unchanged
\* whenever detect_krispy_live_format returns None, and for every payload
\* detected as assemblyai, whisper, gemini or webhook it returns a normalized
\* payload whose event is 'transcript_created' and that contains data.raw_content.
C24_TransformNormalizes ==
  TransformDone =>
    LET detected == detect_krispy_live_format(io.in.payload)
    IN  /\ (detected.raised = "" /\ detected.value = "None")
             => io.out = Returned(io.in.payload)
        /\ (detected.raised = "" /\ detected.value \in KrispyLiveFormats)
             => IsNormalized(io.out)

\* C24 (amended): the payload passes through unchanged whenever detection
\* returns None, and every payload detected as assemblyai, whisper, gemini or
\* webhook that follows the input format documented for its converter is
\* returned normalized, with event 'transcript_created' and data.raw_content.
C24_WellFormedNormalizes ==
  TransformDone =>
    LET detected == detect_krispy_live_format(io.in.payload)
    IN  /\ (detected.raised = "" /\ detected.value = "None")
             => io.out = Returned(io.in.payload)
        /\ (/\ detected.raised = ""
            /\ detected.value \in KrispyLiveFormats
            /\ FollowsFormat(io.in.payload, detected.value))
             => IsNormalized(io.out)

\* A whisper payload of two well-formed segments was converted, its text kept.
C24_Witness ==
  /\ TransformDone
  /\ detect_krispy_live_format(io.in.payload) = Returned("whisper")
  /\ Len(io.in.payload.segments.items) = 2
  /\ FollowsFormat(io.in.payload, "whisper")
  /\ IsNormalized(io.out)
  /\ IsSubstring(S_hi, io.out.value.data.raw_content.s)

====
